---- MODULE Spec2Model ----
(***************************************************************************)
(* The BARS client (client.rs): the Client registry and its tick, and the  *)
(* per-aerodrome state engine (dual-state cells, patch/scenery buffer,     *)
(* timers, block cascade, route solver, edge evaluator).                   *)
(*                                                                         *)
(* Rust vectors are functions over 0..len-1 (the source's indices are kept *)
(* as they are); ordered lists whose indices are never stored (timers,     *)
(* pending_nodes, queues) are sequences.  Option<T> is <<>> or <<x>>.      *)
(* Enum values are tuples whose first element is the variant name.         *)
(***************************************************************************)
EXTENDS Integers, Sequences, FiniteSets, TLC

None == <<>>
Some(x) == <<x>>

Vec(s) == [i \in 0..(Len(s) - 1) |-> s[i + 1]]
VLen(v) == Cardinality(DOMAIN v)

EmptyMap == [k \in {} |-> TRUE]
MapInsert(m, k, v) == (k :> v) @@ m

Range(s) == {s[i] : i \in DOMAIN s}

\* F applied to the value of v, evaluated once
Let(v, F(_)) == CHOOSE r \in {F(x) : x \in {v}} : TRUE

(* bars_config enum values *)
On == "On"
Off == "Off"
Fixed(st) == <<"Fixed", st>>
Direct(reset) == <<"Direct", reset>>
Router(sticky) == <<"Router", sticky>>
ResetNone == <<"None">>
TimeSecs(k) == <<"TimeSecs", k>>
Clear == <<"Clear">>
Relax == <<"Relax">>
Route(a, b) == <<"Route", a, b>>
IsRoute(bs) == bs[1] = "Route"

ElemFixed(b) == <<"Fixed", b>>
ElemNode(n) == <<"Node", n>>
ElemEdge(e) == <<"Edge", e>>

EdgeFixed(st) == <<"Fixed", st>>
EdgeDirect(disjunction) == <<"Direct", disjunction>>
EdgeRouter(block, routes) == <<"Router", block, routes>>

(***************************************************************************)
(* The configuration the model runs on: two Direct nodes with different    *)
(* reset durations, the chain R1 -B1- T -B2- R2 whose middle node          *)
(* T is transparent (Fixed Off) in profile P0 and a Router in P1, elements *)
(* of the three kinds, edges of the three kinds, and presets of which one  *)
(* names indices outside the configuration.  In profiles P2 and P3 the     *)
(* middle node T is Fixed On and Direct; the operator of Spec selects P0   *)
(* and P1 only, SpecCascade starts in each of the four.                    *)
(***************************************************************************)
ICAO == "EGLL"

ConfNodes ==
    Vec(<< [id |-> "D1", parent |-> None],
           [id |-> "D2", parent |-> None],
           [id |-> "R1", parent |-> None],
           [id |-> "T", parent |-> None],
           [id |-> "R2", parent |-> None] >>)

ConfBlocks ==
    Vec(<< [id |-> "B1", nodes |-> <<2, 3>>, non_routes |-> {}],
           [id |-> "B2", nodes |-> <<3, 4>>, non_routes |-> {}] >>)

ConfElements ==
    Vec(<< [id |-> "E1", condition |-> ElemNode(0)],
           [id |-> "E2", condition |-> ElemEdge(0)],
           [id |-> "E3", condition |-> ElemFixed(TRUE)],
           [id |-> "E4", condition |-> ElemEdge(1)],
           [id |-> "E5", condition |-> ElemNode(1)] >>)

ConfProfiles ==
    Vec(<< [id |-> "P0",
            nodes |-> Vec(<< Direct(TimeSecs(1)), Direct(TimeSecs(2)),
                             Router(FALSE), Fixed(Off), Router(FALSE) >>),
            edges |-> Vec(<< EdgeDirect(<< [positive |-> {0}, negative |-> {1}] >>),
                             EdgeRouter(0, {<<2, 3>>}) >>),
            blocks |-> Vec(<< [reset |-> TimeSecs(1)], [reset |-> ResetNone] >>),
            presets |-> Vec(<< [nodes |-> << <<0, Off>>, <<1, On>> >>,
                                blocks |-> << <<0, Relax>> >>],
                               [nodes |-> << <<7, On>> >>,
                                blocks |-> << <<5, Clear>> >>] >>)],
           [id |-> "P1",
            nodes |-> Vec(<< Direct(ResetNone), Fixed(On),
                             Router(FALSE), Router(FALSE), Router(FALSE) >>),
            edges |-> Vec(<< EdgeDirect(<< [positive |-> {0, 3}, negative |-> {}] >>),
                             EdgeFixed(On) >>),
            blocks |-> Vec(<< [reset |-> ResetNone], [reset |-> ResetNone] >>),
            presets |-> Vec(<< >>)],
           [id |-> "P2",
            nodes |-> Vec(<< Direct(ResetNone), Fixed(Off),
                             Router(FALSE), Fixed(On), Router(FALSE) >>),
            edges |-> Vec(<< EdgeFixed(Off), EdgeFixed(On) >>),
            blocks |-> Vec(<< [reset |-> ResetNone], [reset |-> ResetNone] >>),
            presets |-> Vec(<< >>)],
           [id |-> "P3",
            nodes |-> Vec(<< Direct(ResetNone), Fixed(Off),
                             Router(FALSE), Direct(ResetNone), Router(FALSE) >>),
            edges |-> Vec(<< EdgeFixed(Off), EdgeFixed(On) >>),
            blocks |-> Vec(<< [reset |-> ResetNone], [reset |-> ResetNone] >>),
            presets |-> Vec(<< >>)] >>)

Conf ==
    [icao |-> ICAO,
     elements |-> ConfElements,
     nodes |-> ConfNodes,
     edges |-> Vec(<< "Edge", "Edge" >>),
     blocks |-> ConfBlocks,
     profiles |-> ConfProfiles]

(***************************************************************************)
(* Index tables, built once by Aerodrome::new.                             *)
(***************************************************************************)
b2i(d) == IF d THEN 1 ELSE 0

Indices(v) == [k \in 1..VLen(v) |-> k - 1]

\* HashMap<String, usize> filled by insert in index order: the last index wins
IdMap(v) ==
    [id \in {v[i].id : i \in DOMAIN v} |->
        CHOOSE i \in DOMAIN v : v[i].id = id /\ \A j \in DOMAIN v : v[j].id = id => j <= i]

new_children(conf) ==
    [p \in {conf.nodes[i].parent[1] : i \in {j \in DOMAIN conf.nodes : conf.nodes[j].parent # None}} |->
        SelectSeq(Indices(conf.nodes), LAMBDA i : conf.nodes[i].parent = Some(p))]

\* one iteration of the inner loop over block.nodes (k is the position in the list)
RECURSIVE new_block_nodes(_, _, _, _, _)
new_block_nodes(t, conf, i, conns, k) ==
    LET block == conf.blocks[i] IN
    IF k > Len(block.nodes) THEN t
    ELSE
        LET node == block.nodes[k]
            node_borders == t.borders[node]
            ext == SelectSeq(conns, LAMBDA c : c[1] # node /\ <<node, c[1]>> \notin block.non_routes)
            nb1 == [t.node_blocks[node] EXCEPT ![1] = i]
        IN  Let([borders |-> [t.borders EXCEPT ![node] = node_borders + 1],
                 node_conns |-> [t.node_conns EXCEPT ![node][node_borders] = @ \o ext],
                 node_blocks |-> [t.node_blocks EXCEPT ![node] = [nb1 EXCEPT ![node_borders] = i]]],
                LAMBDA t1 : new_block_nodes(t1, conf, i, conns, k + 1))

\* one iteration of the loop over config.blocks; conns is taken before the
\* block's nodes are counted
new_block(t, conf, i) ==
    LET block == conf.blocks[i] IN
    Let([k \in 1..Len(block.nodes) |-> <<block.nodes[k], t.borders[block.nodes[k]] > 0>>],
        LAMBDA conns : new_block_nodes(t, conf, i, conns, 1))

\* the loop over config.blocks, for the indices lo..hi-1 in order (the range
\* is halved so that the evaluation depth stays logarithmic in its length)
RECURSIVE new_blocks(_, _, _, _)
new_blocks(t, conf, lo, hi) ==
    IF lo >= hi THEN t
    ELSE IF hi = lo + 1 THEN new_block(t, conf, lo)
    ELSE Let((lo + hi) \div 2,
             LAMBDA mid :
                Let(new_blocks(t, conf, lo, mid),
                    LAMBDA t1 : new_blocks(t1, conf, mid, hi)))

new_tables(conf) ==
    Let([borders |-> [n \in DOMAIN conf.nodes |-> 0],
         node_conns |-> [n \in DOMAIN conf.nodes |-> Vec(<< <<>>, <<>> >>)],
         node_blocks |-> [n \in DOMAIN conf.nodes |-> Vec(<<0, 0>>)]],
        LAMBDA t0 :
            Let(new_blocks(t0, conf, 0, VLen(conf.blocks)),
                LAMBDA t :
                    [node_ids |-> IdMap(conf.nodes),
                     block_ids |-> IdMap(conf.blocks),
                     node_conns |-> t.node_conns,
                     node_blocks |-> t.node_blocks,
                     children |-> new_children(conf),
                     node_dependencies |->
                        [n \in DOMAIN conf.nodes |->
                            SelectSeq(Indices(conf.elements),
                                      LAMBDA e : conf.elements[e].condition = ElemNode(n))],
                     edge_dependencies |->
                        [g \in DOMAIN conf.edges |->
                            SelectSeq(Indices(conf.elements),
                                      LAMBDA e : conf.elements[e].condition = ElemEdge(g))]]))

\* the immutable part of the aerodrome built from Conf
Idx == new_tables(Conf)

(***************************************************************************)
(* Dual-state cell and the derived node and edge states.                   *)
(***************************************************************************)
state(cell) == IF cell.pending # None THEN cell.pending[1] ELSE cell.current

NodeCond(a, node) == Conf.profiles[a.profile].nodes[node]

\* BlockClears with a relaxed block counted as clearing
BlockClears_relaxed(bs, node) ==
    CASE bs = Clear -> TRUE
      [] bs = Relax -> TRUE
      [] OTHER -> bs[2] # node /\ bs[3] # node

\* does the block's effective state leave the node lit
BlockClears(bs, node) ==
    CASE bs = Clear -> TRUE
      [] bs = Relax -> FALSE
      [] OTHER -> bs[2] # node /\ bs[3] # node

\* node_state whose Router arm asks every recorded block to clear the node
node_state_all(a, node) ==
    LET cond == NodeCond(a, node) IN
    CASE cond[1] = "Fixed" -> cond[2] = On
      [] cond[1] = "Direct" -> state(a.nodes[node])
      [] OTHER -> \A k \in 0..1 : BlockClears(state(a.blocks[Idx.node_blocks[node][k]]), node)

node_state(a, node) ==
    LET cond == NodeCond(a, node) IN
    CASE cond[1] = "Fixed" -> cond[2] = On
      [] cond[1] = "Direct" -> state(a.nodes[node])
      [] OTHER -> \E k \in 0..1 : BlockClears(state(a.blocks[Idx.node_blocks[node][k]]), node)

\* route_candidates that always counts the parent among its own children
route_candidates_with_parent(conf, idx, a, block) ==
    LET bs == state(a.blocks[block]) IN
    IF ~IsRoute(bs) THEN {}
    ELSE
        LET ap == bs[2]
            bp == bs[3]
            ac == IF ap \in DOMAIN idx.children THEN Range(idx.children[ap]) \cup {ap} ELSE {ap}
            bc == IF bp \in DOMAIN idx.children THEN Range(idx.children[bp]) \cup {bp} ELSE {bp}
        IN  {r \in ac \X bc : r \notin conf.blocks[block].non_routes}

\* the candidate pairs (the source's list has no duplicates; only its length,
\* its single element and its projections are used); conf and idx are the
\* aerodrome's configuration and lookup tables
route_candidates(conf, idx, a, block) ==
    LET bs == state(a.blocks[block]) IN
    IF ~IsRoute(bs) THEN {}
    ELSE
        LET ap == bs[2]
            bp == bs[3]
            ac == IF ap \in DOMAIN idx.children THEN Range(idx.children[ap]) ELSE {ap}
            bc == IF bp \in DOMAIN idx.children THEN Range(idx.children[bp]) ELSE {bp}
        IN  {r \in ac \X bc : r \notin conf.blocks[block].non_routes}

\* the restriction of one endpoint's candidates by the adjacent block
restrict_cands(conf, idx, a, block, parent, cands) ==
    LET b1 == idx.node_blocks[parent][0]
        b2 == idx.node_blocks[parent][1]
        adjacent == IF b1 # block THEN b1 ELSE b2
        bs == state(a.blocks[adjacent])
        points == route_candidates(conf, idx, a, adjacent)
    IN  CASE bs = Clear -> cands
          [] bs = Relax -> {}
          [] OTHER ->
                IF bs[2] = parent THEN {r[1] : r \in points}
                ELSE IF bs[3] = parent THEN {r[2] : r \in points}
                ELSE cands

\* the Router arm of edge_state, for an edge of the block with the routes
edge_router(conf, idx, a, block, routes) ==
    LET bs == state(a.blocks[block])
        cands == route_candidates(conf, idx, a, block)
    IN  CASE bs = Clear -> FALSE
          [] bs = Relax -> TRUE
          [] OTHER ->
                IF Cardinality(cands) = 0 THEN FALSE
                ELSE IF Cardinality(cands) = 1 THEN cands \subseteq routes
                ELSE
                    /\ restrict_cands(conf, idx, a, block, bs[2], {r[1] : r \in cands})
                            \subseteq {r[1] : r \in routes}
                    /\ restrict_cands(conf, idx, a, block, bs[3], {r[2] : r \in cands})
                            \subseteq {r[2] : r \in routes}

edge_state(a, edge) ==
    LET cond == Conf.profiles[a.profile].edges[edge] IN
    CASE cond[1] = "Fixed" -> cond[2] = On
      [] cond[1] = "Direct" ->
            \E k \in DOMAIN cond[2] :
                /\ \A n \in cond[2][k].positive : node_state(a, n)
                /\ \A n \in cond[2][k].negative : ~node_state(a, n)
      [] OTHER -> edge_router(Conf, Idx, a, cond[2], cond[3])

calculate_edges(a) == [e \in DOMAIN Conf.edges |-> edge_state(a, e)]

(***************************************************************************)
(* Conversions between the wire form of a block state (node ids) and the   *)
(* internal form (node indices).                                           *)
(***************************************************************************)
bs_ipc_to_conf(ipc) ==
    IF ~IsRoute(ipc) THEN Some(ipc)
    ELSE IF ipc[2] \in DOMAIN Idx.node_ids /\ ipc[3] \in DOMAIN Idx.node_ids
         THEN Some(Route(Idx.node_ids[ipc[2]], Idx.node_ids[ipc[3]]))
         ELSE None

bs_conf_to_ipc(bs) ==
    IF ~IsRoute(bs) THEN bs
    ELSE Route(Conf.nodes[bs[2]].id, Conf.nodes[bs[3]].id)

EmptyPatch == [profile |-> None, nodes |-> EmptyMap, blocks |-> EmptyMap]

patch_is_empty(patch) ==
    patch.profile = None /\ DOMAIN patch.nodes = {} /\ DOMAIN patch.blocks = {}

(***************************************************************************)
(* The aerodrome's writers.  a is the mutable part of an Aerodrome, t the  *)
(* value of Instant::now() when the operation runs.                        *)
(***************************************************************************)
Retain(timers, i) == SelectSeq(timers, LAMBDA tm : tm[1] # i)

NodeDefault(cond) ==
    CASE cond[1] = "Fixed" -> cond[2] = On
      [] cond[1] = "Direct" -> cond[2] # ResetNone
      [] OTHER -> TRUE

set_default_state(a, patch) ==
    Let([a EXCEPT
            !.nodes = [i \in DOMAIN Conf.nodes |->
                        [current |-> NodeDefault(Conf.profiles[a.profile].nodes[i]),
                         pending |-> None]],
            !.blocks = [i \in DOMAIN Conf.blocks |-> [current |-> Clear, pending |-> None]],
            !.node_timers = <<>>,
            !.block_timers = <<>>],
        LAMBDA a1 :
            IF patch
            THEN [a1 EXCEPT
                    !.pending_patch.nodes =
                        [id \in DOMAIN Idx.node_ids |-> state(a1.nodes[Idx.node_ids[id]])],
                    !.pending_nodes = Indices(Conf.nodes),
                    !.pending_patch.blocks =
                        [id \in DOMAIN Idx.block_ids |->
                            bs_conf_to_ipc(state(a1.blocks[Idx.block_ids[id]]))]]
            ELSE [a1 EXCEPT !.previous_edges = calculate_edges(a1)])

new ==
    Let([profile |-> 0,
         nodes |-> <<>>,
         blocks |-> <<>>,
         pending_patch |-> EmptyPatch,
         pending_nodes |-> <<>>,
         previous_edges |-> <<>>,
         node_timers |-> <<>>,
         block_timers |-> <<>>],
        LAMBDA this : set_default_state(this, FALSE))

\* set_node_state that does not list the node among the touched ones
set_node_state_untouched(a, node, st, t) ==
    LET cond == NodeCond(a, node)
        kept == Retain(a.node_timers, node)
    IN  [a EXCEPT
            !.nodes[node].pending = Some(st),
            !.pending_patch.nodes = MapInsert(@, Conf.nodes[node].id, st),
            !.node_timers =
                IF ~st /\ cond[1] = "Direct" /\ cond[2][1] = "TimeSecs"
                THEN Append(kept, <<node, t + cond[2][2]>>)
                ELSE kept]

\* set_node_state that arms the new timer beside the node's old ones
set_node_state_stacking(a, node, st, t) ==
    LET cond == NodeCond(a, node) IN
    [a EXCEPT
        !.nodes[node].pending = Some(st),
        !.pending_patch.nodes = MapInsert(@, Conf.nodes[node].id, st),
        !.pending_nodes = Append(@, node),
        !.node_timers =
            IF ~st /\ cond[1] = "Direct" /\ cond[2][1] = "TimeSecs"
            THEN Append(@, <<node, t + cond[2][2]>>)
            ELSE Retain(@, node)]

set_node_state(a, node, st, t) ==
    LET cond == NodeCond(a, node)
        kept == Retain(a.node_timers, node)
    IN  [a EXCEPT
            !.nodes[node].pending = Some(st),
            !.pending_patch.nodes = MapInsert(@, Conf.nodes[node].id, st),
            !.pending_nodes = Append(@, node),
            !.node_timers =
                IF ~st /\ cond[1] = "Direct" /\ cond[2][1] = "TimeSecs"
                THEN Append(kept, <<node, t + cond[2][2]>>)
                ELSE kept]

\* set_block_state that clears a block already predicted to be in the state
set_block_state_toggle(a, block, bs, t) ==
    LET reset == Conf.profiles[a.profile].blocks[block].reset
        kept == Retain(a.block_timers, block)
        st == IF a.blocks[block].pending = Some(bs) THEN Clear ELSE bs
    IN  [a EXCEPT
            !.blocks[block].pending = Some(st),
            !.pending_patch.blocks = MapInsert(@, Conf.blocks[block].id, bs_conf_to_ipc(st)),
            !.block_timers =
                IF st # Clear /\ reset[1] = "TimeSecs"
                THEN Append(kept, <<block, t + reset[2]>>)
                ELSE kept]

set_block_state(a, block, bs, t) ==
    LET reset == Conf.profiles[a.profile].blocks[block].reset
        kept == Retain(a.block_timers, block)
    IN  [a EXCEPT
            !.blocks[block].pending = Some(bs),
            !.pending_patch.blocks = MapInsert(@, Conf.blocks[block].id, bs_conf_to_ipc(bs)),
            !.block_timers =
                IF bs # Clear /\ reset[1] = "TimeSecs"
                THEN Append(kept, <<block, t + reset[2]>>)
                ELSE kept]

set_node(a, node, st, t) ==
    IF node >= VLen(a.nodes) THEN a
    ELSE IF NodeCond(a, node)[1] = "Direct" THEN set_node_state(a, node, st, t)
    ELSE a

\* cascade_next that crosses every Fixed node, On or Off
cascade_next_fixed(a, block) ==
    LET ns == SelectSeq(Conf.blocks[block].nodes, LAMBDA n : NodeCond(a, n)[1] = "Fixed")
    IN  [k \in 1..(2 * Len(ns)) |-> Idx.node_blocks[ns[(k + 1) \div 2]][(k + 1) % 2]]

\* the blocks pushed after writing a block: both recorded blocks of each
\* Fixed-Off node of the block, in list order
cascade_next(a, block) ==
    LET ns == SelectSeq(Conf.blocks[block].nodes, LAMBDA n : NodeCond(a, n) = Fixed(Off))
    IN  [k \in 1..(2 * Len(ns)) |-> Idx.node_blocks[ns[(k + 1) \div 2]][(k + 1) % 2]]

\* the while loop of set_block: stack is the Vec blocks (pop takes the last)
RECURSIVE set_block_loop(_, _, _, _, _)
set_block_loop(a, stack, visited, bs, t) ==
    IF stack = <<>> THEN a
    ELSE
        LET block == stack[Len(stack)]
            rest == SubSeq(stack, 1, Len(stack) - 1)
        IN  IF block \in visited
            THEN Let(rest, LAMBDA r : set_block_loop(a, r, visited, bs, t))
            ELSE Let(<<set_block_state(a, block, bs, t),
                       rest \o cascade_next(a, block),
                       visited \cup {block}>>,
                     LAMBDA n : set_block_loop(n[1], n[2], n[3], bs, t))

set_block(a, block, bs, t) ==
    IF block >= VLen(a.blocks) THEN a
    ELSE set_block_loop(a, <<block>>, {}, bs, t)

\* set_profile that resets the cells without recording them in the patch
set_profile_unrecorded(a, i) ==
    IF i >= VLen(Conf.profiles) THEN a
    ELSE Let([a EXCEPT !.profile = i, !.pending_patch.profile = Some(Conf.profiles[i].id)],
             LAMBDA a1 : set_default_state(a1, FALSE))

\* set_profile that takes an index outside the range as the profile
set_profile_unchecked(a, i) ==
    IF i >= VLen(Conf.profiles) THEN [a EXCEPT !.profile = i]
    ELSE Let([a EXCEPT !.profile = i, !.pending_patch.profile = Some(Conf.profiles[i].id)],
             LAMBDA a1 : set_default_state(a1, TRUE))

set_profile(a, i) ==
    IF i >= VLen(Conf.profiles) THEN a
    ELSE Let([a EXCEPT !.profile = i, !.pending_patch.profile = Some(Conf.profiles[i].id)],
             LAMBDA a1 : set_default_state(a1, TRUE))

\* the two loops of apply_preset over preset.nodes and preset.blocks
RECURSIVE preset_nodes(_, _, _, _)
preset_nodes(nodes, map, list, k) ==
    IF k > Len(list) THEN [nodes |-> nodes, map |-> map]
    ELSE
        LET node == list[k][1]
            st == list[k][2] = On
        IN  IF node < VLen(nodes)
            THEN Let(<<[nodes EXCEPT ![node].pending = Some(st)],
                       MapInsert(map, Conf.nodes[node].id, st)>>,
                     LAMBDA n : preset_nodes(n[1], n[2], list, k + 1))
            ELSE preset_nodes(nodes, map, list, k + 1)

RECURSIVE preset_blocks(_, _, _, _)
preset_blocks(blocks, map, list, k) ==
    IF k > Len(list) THEN [blocks |-> blocks, map |-> map]
    ELSE
        LET block == list[k][1]
            bs == list[k][2]
        IN  IF block < VLen(blocks)
            THEN Let(<<[blocks EXCEPT ![block].pending = Some(bs)],
                       MapInsert(map, Conf.blocks[block].id, bs_conf_to_ipc(bs))>>,
                     LAMBDA n : preset_blocks(n[1], n[2], list, k + 1))
            ELSE preset_blocks(blocks, map, list, k + 1)

\* apply_preset that adds the preset to the maps recorded so far
apply_preset_merging(a, i) ==
    IF i >= VLen(Conf.profiles[a.profile].presets) THEN a
    ELSE
        LET preset == Conf.profiles[a.profile].presets[i] IN
        Let(<<preset_nodes(a.nodes, a.pending_patch.nodes, preset.nodes, 1),
              preset_blocks(a.blocks, a.pending_patch.blocks, preset.blocks, 1)>>,
            LAMBDA p :
                [a EXCEPT
                    !.nodes = p[1].nodes,
                    !.blocks = p[2].blocks,
                    !.pending_patch.nodes = p[1].map,
                    !.pending_nodes = [k \in 1..Len(preset.nodes) |-> preset.nodes[k][1]],
                    !.pending_patch.blocks = p[2].map,
                    !.node_timers = <<>>,
                    !.block_timers = <<>>])

\* apply_preset that leaves the timers armed
apply_preset_keeps_timers(a, i) ==
    IF i >= VLen(Conf.profiles[a.profile].presets) THEN a
    ELSE
        LET preset == Conf.profiles[a.profile].presets[i] IN
        Let(<<preset_nodes(a.nodes, EmptyMap, preset.nodes, 1),
              preset_blocks(a.blocks, EmptyMap, preset.blocks, 1)>>,
            LAMBDA p :
                [a EXCEPT
                    !.nodes = p[1].nodes,
                    !.blocks = p[2].blocks,
                    !.pending_patch.nodes = p[1].map,
                    !.pending_nodes = [k \in 1..Len(preset.nodes) |-> preset.nodes[k][1]],
                    !.pending_patch.blocks = p[2].map])

apply_preset(a, i) ==
    IF i >= VLen(Conf.profiles[a.profile].presets) THEN a
    ELSE
        LET preset == Conf.profiles[a.profile].presets[i] IN
        Let(<<preset_nodes(a.nodes, EmptyMap, preset.nodes, 1),
              preset_blocks(a.blocks, EmptyMap, preset.blocks, 1)>>,
            LAMBDA p :
                [a EXCEPT
                    !.nodes = p[1].nodes,
                    !.blocks = p[2].blocks,
                    !.pending_patch.nodes = p[1].map,
                    !.pending_nodes = [k \in 1..Len(preset.nodes) |-> preset.nodes[k][1]],
                    !.pending_patch.blocks = p[2].map,
                    !.node_timers = <<>>,
                    !.block_timers = <<>>])

(***************************************************************************)
(* The server-patch reducer.                                               *)
(***************************************************************************)
\* patch_node with the settled prediction left in place
patch_node_keeps_pending(a, id, st) ==
    IF id \notin DOMAIN Idx.node_ids THEN a
    ELSE
        LET i == Idx.node_ids[id] IN
        IF a.nodes[i].pending = Some(st)
        THEN [a EXCEPT !.nodes[i].current = st]
        ELSE [a EXCEPT !.nodes[i].current = st, !.node_timers = Retain(@, i)]

\* patch_node with the timer left armed on a contradiction
patch_node_keeps_timer(a, id, st) ==
    IF id \notin DOMAIN Idx.node_ids THEN a
    ELSE
        LET i == Idx.node_ids[id] IN
        IF a.nodes[i].pending = Some(st)
        THEN [a EXCEPT !.nodes[i].current = st, !.nodes[i].pending = None]
        ELSE [a EXCEPT !.nodes[i].current = st]

\* patch_node that records the server's value in the pending patch
patch_node_echoing(a, id, st) ==
    IF id \notin DOMAIN Idx.node_ids THEN a
    ELSE
        LET i == Idx.node_ids[id] IN
        IF a.nodes[i].pending = Some(st)
        THEN [a EXCEPT !.nodes[i].current = st, !.nodes[i].pending = None,
                       !.pending_patch.nodes = MapInsert(@, id, st)]
        ELSE [a EXCEPT !.nodes[i].current = st, !.node_timers = Retain(@, i),
                       !.pending_patch.nodes = MapInsert(@, id, st)]

\* patch_node that clears the pending whatever the server's value
patch_node_clears(a, id, st) ==
    IF id \notin DOMAIN Idx.node_ids THEN a
    ELSE
        LET i == Idx.node_ids[id] IN
        IF a.nodes[i].pending = Some(st)
        THEN [a EXCEPT !.nodes[i].current = st, !.nodes[i].pending = None]
        ELSE [a EXCEPT !.nodes[i].current = st, !.nodes[i].pending = None,
                       !.node_timers = Retain(@, i)]

\* one entry of patch.nodes
patch_node(a, id, st) ==
    IF id \notin DOMAIN Idx.node_ids THEN a
    ELSE
        LET i == Idx.node_ids[id] IN
        IF a.nodes[i].pending = Some(st)
        THEN [a EXCEPT !.nodes[i].current = st, !.nodes[i].pending = None]
        ELSE [a EXCEPT !.nodes[i].current = st, !.node_timers = Retain(@, i)]

\* patch_block that cancels the block's timer when the state names an
\* unknown node
patch_block_cancelling(a, id, ipc) ==
    IF id \notin DOMAIN Idx.block_ids THEN a
    ELSE
        LET i == Idx.block_ids[id] IN
        Let(bs_ipc_to_conf(ipc),
            LAMBDA conv :
                IF conv = None THEN [a EXCEPT !.block_timers = Retain(@, i)]
                ELSE IF a.blocks[i].pending = conv
                THEN [a EXCEPT !.blocks[i].current = conv[1], !.blocks[i].pending = None]
                ELSE [a EXCEPT !.blocks[i].current = conv[1], !.block_timers = Retain(@, i)])

\* one entry of patch.blocks
patch_block(a, id, ipc) ==
    IF id \notin DOMAIN Idx.block_ids THEN a
    ELSE
        LET i == Idx.block_ids[id] IN
        Let(bs_ipc_to_conf(ipc),
            LAMBDA conv :
                IF conv = None THEN a
                ELSE IF a.blocks[i].pending = conv
                THEN [a EXCEPT !.blocks[i].current = conv[1], !.blocks[i].pending = None]
                ELSE [a EXCEPT !.blocks[i].current = conv[1], !.block_timers = Retain(@, i)])

\* the loops over the two maps; the entries of a map name different entities,
\* so the iteration order of the HashMap does not change the outcome
RECURSIVE patch_nodes(_, _, _)
patch_nodes(a, map, ids) ==
    IF ids = {} THEN a
    ELSE LET id == CHOOSE x \in ids : TRUE
         IN  Let(<<patch_node(a, id, map[id]), ids \ {id}>>,
                 LAMBDA n : patch_nodes(n[1], map, n[2]))

RECURSIVE patch_blocks(_, _, _)
patch_blocks(a, map, ids) ==
    IF ids = {} THEN a
    ELSE LET id == CHOOSE x \in ids : TRUE
         IN  Let(<<patch_block(a, id, map[id]), ids \ {id}>>,
                 LAMBDA n : patch_blocks(n[1], map, n[2]))

\* patch_profile that keeps the timers when the profile is known
patch_profile_keeps_timers(a, profile) ==
    IF profile = None THEN a
    ELSE
        LET pos == {i \in DOMAIN Conf.profiles : Conf.profiles[i].id = profile[1]} IN
        IF pos = {} THEN a
        ELSE [a EXCEPT !.profile = CHOOSE i \in pos : \A j \in pos : i <= j]

\* patch_profile that resets the state as the local set_profile does
patch_profile_resetting(a, profile) ==
    IF profile = None THEN a
    ELSE
        LET pos == {i \in DOMAIN Conf.profiles : Conf.profiles[i].id = profile[1]} IN
        IF pos = {} THEN a
        ELSE set_profile([a EXCEPT !.node_timers = <<>>, !.block_timers = <<>>],
                         CHOOSE i \in pos : \A j \in pos : i <= j)

patch_profile(a, profile) ==
    IF profile = None THEN a
    ELSE
        LET pos == {i \in DOMAIN Conf.profiles : Conf.profiles[i].id = profile[1]} IN
        IF pos = {} THEN a
        ELSE [a EXCEPT !.profile = CHOOSE i \in pos : \A j \in pos : i <= j,
                       !.node_timers = <<>>,
                       !.block_timers = <<>>]

apply_patch(a, patch) ==
    Let(patch_profile(a, patch.profile),
        LAMBDA a1 :
            Let(patch_nodes(a1, patch.nodes, DOMAIN patch.nodes),
                LAMBDA a2 : patch_blocks(a2, patch.blocks, DOMAIN patch.blocks)))

(***************************************************************************)
(* Timers and the flush.                                                   *)
(***************************************************************************)
RECURSIVE tick_nodes(_, _)
tick_nodes(a, t) ==
    IF a.node_timers # <<>> /\ a.node_timers[1][2] < t
    THEN Let([a EXCEPT !.node_timers = Tail(@)],
             LAMBDA a1 :
                Let(set_node(a1, a.node_timers[1][1], TRUE, t),
                    LAMBDA a2 : tick_nodes(a2, t)))
    ELSE a

RECURSIVE tick_blocks(_, _)
tick_blocks(a, t) ==
    IF a.block_timers # <<>> /\ a.block_timers[1][2] < t
    THEN Let([a EXCEPT !.block_timers = Tail(@)],
             LAMBDA a1 :
                Let(set_block(a1, a.block_timers[1][1], Clear, t),
                    LAMBDA a2 : tick_blocks(a2, t)))
    ELSE a

tick(a, t) == Let(tick_nodes(a, t), LAMBDA a1 : tick_blocks(a1, t))

\* HashMap inserts in order: a later insert of the same key replaces the value
RECURSIVE InsertAll(_, _, _)
InsertAll(map, list, k) ==
    IF k > Len(list) THEN map
    ELSE Let(MapInsert(map, list[k][1], list[k][2]), LAMBDA m : InsertAll(m, list, k + 1))

RECURSIVE Flatten(_, _)
Flatten(lists, k) ==
    IF k > Len(lists) THEN <<>> ELSE lists[k] \o Flatten(lists, k + 1)

\* ElementValue that reads a node through node_state
ElementValue_node_state(a, next_edges, e) ==
    LET cond == Conf.elements[e].condition IN
    CASE cond[1] = "Fixed" -> cond[2]
      [] cond[1] = "Edge" -> next_edges[cond[2]]
      [] OTHER -> node_state(a, cond[2])

ElementValue(a, next_edges, e) ==
    LET cond == Conf.elements[e].condition IN
    CASE cond[1] = "Fixed" -> cond[2]
      [] cond[1] = "Edge" -> next_edges[cond[2]]
      [] OTHER -> state(a.nodes[cond[2]])

\* the inserts of the touched-node loop, in order
scenery_nodes(a, nodes) ==
    Let([k \in 1..Len(nodes) |->
            LET deps == Idx.node_dependencies[nodes[k]] IN
            [j \in 1..Len(deps) |-> <<Conf.elements[deps[j]].id, state(a.nodes[nodes[k]])>>]],
        LAMBDA lists : Flatten(lists, 1))

\* scenery_edges without the comparison of the two edge vectors
scenery_edges_all(a, next_edges) ==
    Let([k \in 1..VLen(next_edges) |->
            LET i == k - 1
                deps == Idx.edge_dependencies[i]
            IN  IF i \in DOMAIN a.previous_edges
                THEN [j \in 1..Len(deps) |-> <<Conf.elements[deps[j]].id, a.previous_edges[i]>>]
                ELSE <<>>],
        LAMBDA lists : Flatten(lists, 1))

\* the inserts of the edge loop: the loop binds (prev, next) to
\* (next_edges[i], previous_edges[i]) and inserts the second
scenery_edges(a, next_edges) ==
    Let([k \in 1..VLen(next_edges) |->
            LET i == k - 1
                deps == Idx.edge_dependencies[i]
            IN  IF i \in DOMAIN a.previous_edges /\ next_edges[i] # a.previous_edges[i]
                THEN [j \in 1..Len(deps) |-> <<Conf.elements[deps[j]].id, a.previous_edges[i]>>]
                ELSE <<>>],
        LAMBDA lists : Flatten(lists, 1))

\* the inserts of the full refresh, one per element in index order
scenery_full(a, next_edges) ==
    [k \in 1..VLen(Conf.elements) |->
        <<Conf.elements[k - 1].id, ElementValue(a, next_edges, k - 1)>>]

\* take_pending that reads the pending patch and the touched nodes
\* without taking them
take_pending_borrowing(a) ==
    Let(calculate_edges(a),
        LAMBDA next_edges :
            LET patch == a.pending_patch
                nodes == a.pending_nodes
            IN  IF patch.profile # None
                THEN [a |-> [a EXCEPT !.previous_edges = next_edges],
                      patch |-> patch,
                      scenery |-> Let(scenery_full(a, next_edges),
                                      LAMBDA l : InsertAll(EmptyMap, l, 1)),
                      panicked |-> FALSE]
                ELSE IF \E k \in 1..Len(nodes) : nodes[k] \notin DOMAIN Idx.node_dependencies
                THEN [a |-> a, patch |-> patch, scenery |-> EmptyMap, panicked |-> TRUE]
                ELSE [a |-> [a EXCEPT !.previous_edges = next_edges],
                      patch |-> patch,
                      scenery |-> Let(scenery_nodes(a, nodes) \o scenery_edges(a, next_edges),
                                      LAMBDA l : InsertAll(EmptyMap, l, 1)),
                      panicked |-> FALSE])

\* [a, patch, scenery, panicked]: panicked when the touched-node loop indexes
\* node_dependencies out of range
take_pending(a) ==
    Let(<<calculate_edges(a),
          [a EXCEPT !.pending_patch = EmptyPatch, !.pending_nodes = <<>>]>>,
        LAMBDA v :
            LET next_edges == v[1]
                taken == v[2]
                patch == a.pending_patch
                nodes == a.pending_nodes
            IN  IF patch.profile # None
                THEN [a |-> [taken EXCEPT !.previous_edges = next_edges],
                      patch |-> patch,
                      scenery |-> Let(scenery_full(a, next_edges),
                                      LAMBDA l : InsertAll(EmptyMap, l, 1)),
                      panicked |-> FALSE]
                ELSE IF \E k \in 1..Len(nodes) : nodes[k] \notin DOMAIN Idx.node_dependencies
                THEN [a |-> taken, patch |-> patch, scenery |-> EmptyMap, panicked |-> TRUE]
                ELSE [a |-> [taken EXCEPT !.previous_edges = next_edges],
                      patch |-> patch,
                      scenery |-> Let(scenery_nodes(a, nodes) \o scenery_edges(a, next_edges),
                                      LAMBDA l : InsertAll(EmptyMap, l, 1)),
                      panicked |-> FALSE])

(***************************************************************************)
(* The route solver.  rs is the local state of set_route's loops: nodes    *)
(* (the deque), visited, chain, list, revisited, and for the inner loop    *)
(* that rebuilds the chain prev, i and the distance of the popped entry.   *)
(* status says where the function stands: "search" in the outer loop,      *)
(* "recon" in the inner loop, "found" after the break, "overflow" and      *)
(* "error" after the two early returns.  pushes counts, for each key, the  *)
(* times it was put on the deque.                                          *)
(***************************************************************************)
ChainGuard == 1000

route_init(orgn) ==
    [nodes |-> << <<orgn, FALSE, 0>>, <<orgn, TRUE, 0>> >>,
     visited |-> {<<orgn, FALSE>>, <<orgn, TRUE>>},
     chain |-> EmptyMap,
     list |-> None,
     revisited |-> {},
     prev |-> None,
     i |-> 0,
     distance |-> 0,
     status |-> "search",
     pushes |-> [k \in {<<orgn, FALSE>>, <<orgn, TRUE>>} |-> 1]]

\* recon_step without the overflow return
recon_step_unguarded(rs) ==
    LET item == rs.prev[1]
        i == rs.i + 1
        prev == IF item \in DOMAIN rs.chain THEN Some(rs.chain[item]) ELSE None
    IN  [rs EXCEPT
            !.i = i,
            !.list = Some(Append(@[1], item)),
            !.prev = prev,
            !.status = IF prev # None THEN "recon"
                       ELSE IF rs.distance > 1 THEN "search"
                       ELSE "found"]

\* one iteration of the inner while loop that walks chain from the
\* destination key, with the loop's exit when prev becomes None
recon_step(rs) ==
    LET item == rs.prev[1]
        i == rs.i + 1
        prev == IF item \in DOMAIN rs.chain THEN Some(rs.chain[item]) ELSE None
    IN  [rs EXCEPT
            !.i = i,
            !.list = Some(Append(@[1], item)),
            !.prev = prev,
            !.status = IF i > ChainGuard THEN "overflow"
                       ELSE IF prev # None THEN "recon"
                       ELSE IF rs.distance > 1 THEN "search"
                       ELSE "found"]

\* the for loop over node_conns[node][direction]
RECURSIVE route_expand(_, _, _, _, _, _, _)
route_expand(rs, conns, k, node, direction, distance, transparent) ==
    IF k > Len(conns) THEN rs
    ELSE
        LET next_key == <<conns[k][1], ~conns[k][2]>>
            next == <<conns[k][1], ~conns[k][2], distance + (IF transparent THEN 0 ELSE 1)>>
            rs1 == IF next_key \notin rs.visited
                   THEN [rs EXCEPT
                            !.visited = @ \cup {next_key},
                            !.chain = MapInsert(@, next_key, <<node, direction>>),
                            !.nodes = IF transparent THEN <<next>> \o @ ELSE Append(@, next),
                            !.pushes = MapInsert(@, next_key,
                                        IF next_key \in DOMAIN @ THEN @[next_key] + 1 ELSE 1)]
                   ELSE [rs EXCEPT !.revisited = @ \cup {next_key}]
        IN  Let(rs1, LAMBDA r : route_expand(r, conns, k + 1, node, direction, distance, transparent))

\* route_step that treats a Fixed-On node as any other node
route_step_through(conf, idx, prof, dest, rs) ==
    LET node == rs.nodes[1][1]
        direction == rs.nodes[1][2]
        distance == rs.nodes[1][3]
        condition == conf.profiles[prof].nodes[node]
        transparent == condition = Fixed(Off)
    IN  Let([rs EXCEPT !.nodes = Tail(@)],
            LAMBDA popped :
                IF node = dest
                THEN IF rs.list = None
                     THEN [popped EXCEPT
                            !.list = Some(<<>>),
                            !.prev = Some(<<node, direction>>),
                            !.i = 0,
                            !.distance = distance,
                            !.status = "recon"]
                     ELSE [popped EXCEPT !.status = "error"]
                ELSE route_expand(popped, idx.node_conns[node][b2i(direction)], 1,
                                  node, direction, distance, transparent))

\* one iteration of the outer while loop (the deque is not empty), up to the
\* entry of the inner loop
route_step(conf, idx, prof, dest, rs) ==
    LET node == rs.nodes[1][1]
        direction == rs.nodes[1][2]
        distance == rs.nodes[1][3]
        condition == conf.profiles[prof].nodes[node]
        transparent == condition = Fixed(Off)
    IN  Let([rs EXCEPT !.nodes = Tail(@)],
            LAMBDA popped :
                IF condition = Fixed(On) THEN popped
                ELSE IF node = dest
                THEN IF rs.list = None
                     THEN [popped EXCEPT
                            !.list = Some(<<>>),
                            !.prev = Some(<<node, direction>>),
                            !.i = 0,
                            !.distance = distance,
                            !.status = "recon"]
                     ELSE [popped EXCEPT !.status = "error"]
                ELSE route_expand(popped, idx.node_conns[node][b2i(direction)], 1,
                                  node, direction, distance, transparent))

\* set_route has left its loops: a return, the break, or the deque ran empty
RouteDone(rs) ==
    rs.status \notin {"search", "recon"} \/ (rs.status = "search" /\ rs.nodes = <<>>)

route_iter(conf, idx, prof, dest, rs) ==
    IF rs.status = "recon" THEN recon_step(rs) ELSE route_step(conf, idx, prof, dest, rs)

RECURSIVE route_search(_, _, _, _, _)
route_search(conf, idx, prof, dest, rs) ==
    IF RouteDone(rs) THEN rs
    ELSE Let(route_iter(conf, idx, prof, dest, rs),
             LAMBDA r : route_search(conf, idx, prof, dest, r))

\* route_result without the test of the chain against revisited
route_result_unchecked(rs) ==
    IF rs.status \in {"overflow", "error"} \/ rs.list = None THEN None
    ELSE Some(rs.list[1])

\* the chain to commit, or None when set_route writes nothing
route_result(rs) ==
    IF rs.status \in {"overflow", "error"} \/ rs.list = None THEN None
    ELSE
        LET list == rs.list[1] IN
        IF \E k \in 1..(Len(list) - 1) : list[k] \in rs.revisited THEN None
        ELSE Some(list)

\* route_commit that writes each route with its ends exchanged
RECURSIVE route_commit_swapped(_, _, _, _)
route_commit_swapped(a, list, k, t) ==
    IF k + 1 > Len(list) THEN a
    ELSE
        LET node2 == list[k][1]
            node1 == list[k + 1][1]
            direction1 == list[k + 1][2]
            block == Idx.node_blocks[node1][b2i(direction1)]
        IN  Let(set_block_state(a, block, Route(node2, node1), t),
                LAMBDA a1 : route_commit_swapped(a1, list, k + 1, t))

\* the commit loop over list.windows(2)
RECURSIVE route_commit(_, _, _, _)
route_commit(a, list, k, t) ==
    IF k + 1 > Len(list) THEN a
    ELSE
        LET node2 == list[k][1]
            node1 == list[k + 1][1]
            direction1 == list[k + 1][2]
            block == Idx.node_blocks[node1][b2i(direction1)]
        IN  Let(set_block_state(a, block, Route(node1, node2), t),
                LAMBDA a1 : route_commit(a1, list, k + 1, t))

\* commit_calls that takes the block from the later key of each pair
commit_calls_later_key(idx, list) ==
    [k \in 1..(Len(list) - 1) |->
        <<idx.node_blocks[list[k][1]][b2i(list[k][2])],
          Route(list[k + 1][1], list[k][1])>>]

\* the set_block_state calls of the commit loop, in order, as (block, state)
commit_calls(idx, list) ==
    [k \in 1..(Len(list) - 1) |->
        <<idx.node_blocks[list[k + 1][1]][b2i(list[k + 1][2])],
          Route(list[k + 1][1], list[k][1])>>]

IsRouter(a, node) == NodeCond(a, node)[1] = "Router"

\* set_route indexes the profile's nodes before any range check
set_route_panics(a, orgn, dest) ==
    orgn \notin DOMAIN Conf.nodes \/ (IsRouter(a, orgn) /\ dest \notin DOMAIN Conf.nodes)

set_route(a, orgn, dest, t) ==
    IF ~IsRouter(a, orgn) \/ ~IsRouter(a, dest) THEN a
    ELSE
        Let(route_search(Conf, Idx, a.profile, dest, route_init(orgn)),
            LAMBDA rs :
                Let(route_result(rs),
                    LAMBDA res : IF res = None THEN a ELSE route_commit(a, res[1], 1, t)))

(***************************************************************************)
(* The client: the registry, the clock and the tick.  The channel belongs  *)
(* to another crate: what it delivers is an input of the receive loop.     *)
(* pc is the position of Client::tick: "idle" between ticks, "recv" inside *)
(* the receive loop, "flush" between an aerodrome's tick() and its         *)
(* take_pending(), "panicked" after a panic.  The host calls the operator  *)
(* commands from the same thread, so only between ticks.                   *)
(*                                                                         *)
(* History variables: ops lists the local operations on the aerodrome      *)
(* since its last flush; ev describes the message the receive loop applied *)
(* last in the current tick and counts the tick's messages; upstream holds *)
(* what the last flush sent, until the next command or flush.              *)
(***************************************************************************)
VARIABLES aerodromes, upstream, now, pc, ops, ev, ncmd, nmsg, solver, file, sent, shown

vars == <<aerodromes, upstream, now, pc, ops, ev, ncmd, nmsg, solver, file, sent, shown>>
client == <<aerodromes, upstream, now, pc, ops, ev, ncmd, nmsg>>

MaxCmds == 2
MaxMsgs == 3
MaxSteps == 4
MaxTime == 2

Tracked == ICAO \in DOMAIN aerodromes
A == aerodromes[ICAO]

NoEv ==
    [msg |-> None, n |-> 0, settled |-> {}, contradicted |-> {}, unpredicted |-> {},
     armed |-> {}, due |-> {}]

Init ==
    /\ aerodromes = EmptyMap
    /\ upstream = <<>>
    /\ now = 0
    /\ pc = "idle"
    /\ ops = <<>>
    /\ ev = NoEv
    /\ ncmd = 0
    /\ nmsg = 0
    /\ solver = None
    /\ file = None
    /\ sent = {}
    /\ shown = None

(* the inputs the environment draws from *)
NodeArgs == ({0, 1} \X BOOLEAN) \cup {<<2, FALSE>>, <<5, TRUE>>}
BlockArgs == ({0, 1} \X {Clear, Relax, Route(2, 3)}) \cup {<<2, Relax>>}
RouteArgs == {<<2, 4>>, <<4, 2>>, <<2, 3>>, <<4, 3>>, <<2, 0>>, <<0, 2>>, <<2, 9>>, <<9, 2>>}
ProfileArgs == {0, 1, 4}
PresetArgs == {0, 1, 2}

Patch(profile, nodes, blocks) == [profile |-> profile, nodes |-> nodes, blocks |-> blocks]
One(k, v) == MapInsert(EmptyMap, k, v)

ServerPatches ==
    {Patch(None, One("D1", FALSE), EmptyMap),
     Patch(None, MapInsert(One("D1", FALSE), "D2", FALSE), EmptyMap),
     Patch(None, EmptyMap, One("B1", Relax)),
     Patch(None, EmptyMap, One("B1", Route("R1", "T"))),
     Patch(Some("P1"), EmptyMap, EmptyMap),
     Patch(Some("P0"), One("D1", FALSE), EmptyMap),
     Patch(Some("PX"), MapInsert(One("D1", TRUE), "ZZ", FALSE),
           MapInsert(One("B1", Route("R1", "ZZ")), "BX", Relax))}

Downstream ==
    {[type |-> "Config", icao |-> ICAO]}
        \cup {[type |-> "Patch", icao |-> ICAO, patch |-> p] : p \in ServerPatches}
        \cup {[type |-> "Error", icao |-> ICAO, disconnect |-> d] : d \in BOOLEAN}

(* the clock *)
\* time passes between ticks (within a tick only tick() reads the clock)
Advance ==
    /\ pc = "idle"
    /\ now < MaxTime
    /\ now' = now + 1
    /\ UNCHANGED <<aerodromes, upstream, pc, ops, ev, ncmd, nmsg, solver, file, sent, shown>>

(* operator commands, through Client::aerodrome_mut *)
Command(result, label) ==
    /\ pc = "idle"
    /\ Tracked
    /\ ncmd < MaxCmds /\ ncmd + nmsg < MaxSteps
    /\ aerodromes' = [aerodromes EXCEPT ![ICAO] = result]
    /\ ops' = Append(ops, label)
    /\ upstream' = <<>>
    /\ ncmd' = ncmd + 1
    /\ UNCHANGED <<now, pc, ev, nmsg, solver, file, sent, shown>>

SetNode ==
    \E r \in NodeArgs :
        Command(set_node(A, r[1], r[2], now),
                <<"set_node", r[1], r[2],
                  IF r[1] < VLen(A.nodes) THEN NodeCond(A, r[1])[1] ELSE "none">>)

SetBlock ==
    \E r \in BlockArgs :
        Command(set_block(A, r[1], r[2], now), <<"set_block", r[1], r[2]>>)

SetRoute ==
    \E r \in RouteArgs :
        /\ pc = "idle"
        /\ Tracked
        /\ IF set_route_panics(A, r[1], r[2])
           THEN /\ ncmd < MaxCmds /\ ncmd + nmsg < MaxSteps
                /\ pc' = "panicked"
                /\ UNCHANGED <<aerodromes, upstream, now, ops, ev, ncmd, nmsg, solver, file, sent, shown>>
           ELSE Command(set_route(A, r[1], r[2], now), <<"set_route", r[1], r[2]>>)

SetProfile ==
    \E i \in ProfileArgs :
        Command(set_profile(A, i), <<"set_profile", i>>)

ApplyPreset ==
    \E i \in PresetArgs :
        Command(apply_preset(A, i), <<"apply_preset", i>>)

\* set_tracking that leaves the registry as it is
set_tracking_keeps(aeros, icao, track) == aeros

\* Client::set_tracking, also called by the receive loop on Error{disconnect}
set_tracking(aeros, icao, track) ==
    IF ~track /\ icao \in DOMAIN aeros THEN [k \in (DOMAIN aeros) \ {icao} |-> aeros[k]]
    ELSE aeros

SetTracking ==
    \E track \in BOOLEAN :
        /\ pc = "idle"
        /\ aerodromes' = set_tracking(aerodromes, ICAO, track)
        /\ upstream' = <<>>
        /\ ops' = IF track THEN ops ELSE <<>>
        /\ sent' = IF ICAO \in DOMAIN aerodromes' THEN sent ELSE {}
        /\ shown' = IF ICAO \in DOMAIN aerodromes' THEN shown ELSE None
        /\ UNCHANGED <<now, pc, ev, ncmd, nmsg, solver, file>>

(* Client::tick *)
\* what the receive loop's message finds in the aerodrome it is for: the
\* entities whose pending it equals, those whose pending it differs from,
\* those of the latter that had no pending, the entities with a timer, and
\* those of them whose deadline has passed
PatchEv(a, m, n) ==
    LET ns == {id \in DOMAIN m.patch.nodes : id \in DOMAIN Idx.node_ids}
        bl == {id \in DOMAIN m.patch.blocks :
                id \in DOMAIN Idx.block_ids /\ bs_ipc_to_conf(m.patch.blocks[id]) # None}
    IN  [msg |-> Some(m),
         n |-> n,
         settled |->
            {<<"node", Idx.node_ids[id]>> : id \in {x \in ns :
                a.nodes[Idx.node_ids[x]].pending = Some(m.patch.nodes[x])}}
            \cup {<<"block", Idx.block_ids[id]>> : id \in {x \in bl :
                a.blocks[Idx.block_ids[x]].pending = bs_ipc_to_conf(m.patch.blocks[x])}},
         contradicted |->
            {<<"node", Idx.node_ids[id]>> : id \in {x \in ns :
                a.nodes[Idx.node_ids[x]].pending # Some(m.patch.nodes[x])}}
            \cup {<<"block", Idx.block_ids[id]>> : id \in {x \in bl :
                a.blocks[Idx.block_ids[x]].pending # bs_ipc_to_conf(m.patch.blocks[x])}},
         unpredicted |->
            {<<"node", Idx.node_ids[id]>> : id \in {x \in ns :
                a.nodes[Idx.node_ids[x]].pending = None}}
            \cup {<<"block", Idx.block_ids[id]>> : id \in {x \in bl :
                a.blocks[Idx.block_ids[x]].pending = None}},
         armed |->
            {<<"node", a.node_timers[k][1]>> : k \in DOMAIN a.node_timers}
            \cup {<<"block", a.block_timers[k][1]>> : k \in DOMAIN a.block_timers},
         due |->
            {<<"node", a.node_timers[k][1]>> :
                k \in {j \in DOMAIN a.node_timers : a.node_timers[j][2] < now}}
            \cup {<<"block", a.block_timers[k][1]>> :
                k \in {j \in DOMAIN a.block_timers : a.block_timers[j][2] < now}}]

\* one iteration of the receive loop: channel.recv() returns the message m
TickRecv ==
    /\ pc \in {"idle", "recv"}
    /\ nmsg < MaxMsgs /\ ncmd + nmsg < MaxSteps
    /\ nmsg' = nmsg + 1
    /\ pc' = "recv"
    /\ \E m \in Downstream, n \in {IF pc = "idle" THEN 1 ELSE ev.n + 1} :
       CASE m.type = "Config" ->
                /\ aerodromes' = IF m.icao \in DOMAIN aerodromes THEN aerodromes
                                 ELSE [k \in (DOMAIN aerodromes) \cup {m.icao} |->
                                        IF k = m.icao THEN new ELSE aerodromes[k]]
                /\ ev' = [NoEv EXCEPT !.msg = Some(m), !.n = n]
                /\ UNCHANGED <<upstream, ops>>
         [] m.type = "Patch" ->
                /\ aerodromes' = IF m.icao \in DOMAIN aerodromes
                                 THEN [aerodromes EXCEPT ![m.icao] = apply_patch(@, m.patch)]
                                 ELSE aerodromes
                /\ ev' = IF m.icao \in DOMAIN aerodromes THEN PatchEv(aerodromes[m.icao], m, n)
                         ELSE [NoEv EXCEPT !.msg = Some(m), !.n = n]
                /\ UNCHANGED <<upstream, ops>>
         [] OTHER ->
                /\ aerodromes' = IF m.disconnect THEN set_tracking(aerodromes, m.icao, FALSE)
                                 ELSE aerodromes
                /\ ops' = IF m.disconnect THEN <<>> ELSE ops
                /\ ev' = [NoEv EXCEPT !.msg = Some(m), !.n = n]
                /\ UNCHANGED upstream
    /\ sent' = IF ICAO \in DOMAIN aerodromes' THEN sent ELSE {}
    /\ shown' = IF ICAO \in DOMAIN aerodromes' THEN shown ELSE None
    /\ UNCHANGED <<now, ncmd, solver, file>>

\* channel.recv() returns None: the aerodrome's tick()
TickTimers ==
    /\ pc \in {"idle", "recv"}
    /\ pc' = "flush"
    /\ IF Tracked
       THEN \E a1 \in {tick(A, now)} :
            /\ aerodromes' = [aerodromes EXCEPT ![ICAO] = a1]
            /\ ops' = IF a1 # A THEN Append(ops, <<"timer">>) ELSE ops
       ELSE UNCHANGED <<aerodromes, ops>>
    /\ UNCHANGED <<upstream, now, ev, ncmd, nmsg, solver, file, sent, shown>>

\* the messages sent for one (patch, scenery) pair
flush_sends(patch, scenery) ==
    (IF patch_is_empty(patch) THEN <<>>
     ELSE << [type |-> "Patch", icao |-> ICAO, patch |-> patch] >>)
    \o (IF DOMAIN scenery = {} THEN <<>>
        ELSE << [type |-> "Scenery", icao |-> ICAO, scenery |-> scenery] >>)

\* the node and block entries of a patch, as (kind, id, value)
patch_entries(patch) ==
    {<<"node", id, patch.nodes[id]>> : id \in DOMAIN patch.nodes}
        \cup {<<"block", id, patch.blocks[id]>> : id \in DOMAIN patch.blocks}

\* the value each node's cell holds for the renderer: state() of the cell
node_values(a) ==
    [n \in DOMAIN a.nodes |-> state(a.nodes[n])]

\* the aerodrome's take_pending() and the sends; sent collects the entries
\* of the patches sent for the aerodrome since it was created, shown the
\* node values at the aerodrome's last flush
TickFlush ==
    /\ pc = "flush"
    /\ IF Tracked
       THEN \E tp \in {take_pending(A)} :
            /\ aerodromes' = [aerodromes EXCEPT ![ICAO] = tp.a]
            /\ upstream' = IF tp.panicked THEN <<>> ELSE flush_sends(tp.patch, tp.scenery)
            /\ pc' = IF tp.panicked THEN "panicked" ELSE "idle"
            /\ sent' = IF tp.panicked THEN sent ELSE sent \cup patch_entries(tp.patch)
            /\ shown' = IF tp.panicked THEN shown ELSE Some(node_values(tp.a))
       ELSE /\ pc' = "idle"
            /\ upstream' = <<>>
            /\ UNCHANGED <<aerodromes, sent, shown>>
    /\ ops' = <<>>
    /\ ev' = NoEv
    /\ UNCHANGED <<now, ncmd, nmsg, solver, file>>

Next ==
    \/ Advance
    \/ SetNode
    \/ SetBlock
    \/ SetRoute
    \/ SetProfile
    \/ ApplyPreset
    \/ SetTracking
    \/ TickRecv
    \/ TickTimers
    \/ TickFlush

Spec == Init /\ [][Next]_vars

(***************************************************************************)
(* set_route's loops taken a burst of iterations at a time, on the         *)
(* configuration above, on a ring with a transparent node, on blocks of    *)
(* three parents and on a line whose end-to-end chain is longer than the   *)
(* guard of the inner loop; then the return or the commit.                 *)
(***************************************************************************)
LineLen == 1002
Burst == 10

LineConf ==
    [icao |-> "LINE",
     elements |-> Vec(<< >>),
     nodes |-> [i \in 0..(LineLen - 1) |-> [id |-> ToString(i), parent |-> None]],
     edges |-> Vec(<< >>),
     blocks |-> [i \in 0..(LineLen - 2) |->
                    [id |-> ToString(i), nodes |-> <<i, i + 1>>, non_routes |-> {}]],
     profiles |-> Vec(<< [id |-> "L0",
                          nodes |-> [i \in 0..(LineLen - 1) |-> Router(FALSE)],
                          edges |-> Vec(<< >>),
                          blocks |-> [i \in 0..(LineLen - 2) |-> [reset |-> ResetNone]],
                          presets |-> Vec(<< >>)] >>)]

RingConf ==
    [icao |-> "RING",
     elements |-> Vec(<< >>),
     nodes |-> [i \in 0..3 |-> [id |-> ToString(i), parent |-> None]],
     edges |-> Vec(<< >>),
     blocks |-> Vec(<< [id |-> "a", nodes |-> <<0, 1>>, non_routes |-> {}],
                       [id |-> "b", nodes |-> <<1, 2>>, non_routes |-> {}],
                       [id |-> "c", nodes |-> <<2, 3>>, non_routes |-> {}],
                       [id |-> "d", nodes |-> <<3, 0>>, non_routes |-> {}] >>),
     profiles |-> Vec(<< [id |-> "G0",
                          nodes |-> Vec(<< Router(FALSE), Fixed(Off), Router(FALSE), Router(FALSE) >>),
                          edges |-> Vec(<< >>),
                          blocks |-> [i \in 0..3 |-> [reset |-> ResetNone]],
                          presets |-> Vec(<< >>)],
                         [id |-> "G1",
                          nodes |-> Vec(<< Router(FALSE), Router(FALSE), Router(FALSE), Fixed(On) >>),
                          edges |-> Vec(<< >>),
                          blocks |-> [i \in 0..3 |-> [reset |-> ResetNone]],
                          presets |-> Vec(<< >>)],
                         [id |-> "G2",
                          nodes |-> [i \in 0..3 |-> Router(FALSE)],
                          edges |-> Vec(<< >>),
                          blocks |-> [i \in 0..3 |-> [reset |-> ResetNone]],
                          presets |-> Vec(<< >>)] >>)]

\* blocks of three parents: from node 0 the node 3 is met through node 1
\* and through node 2, on the same side
JunctionConf ==
    [icao |-> "JUNC",
     elements |-> Vec(<< >>),
     nodes |-> [i \in 0..4 |-> [id |-> ToString(i), parent |-> None]],
     edges |-> Vec(<< >>),
     blocks |-> Vec(<< [id |-> "z", nodes |-> <<0, 1, 2>>, non_routes |-> {}],
                       [id |-> "x", nodes |-> <<1, 2, 3>>, non_routes |-> {}],
                       [id |-> "w", nodes |-> <<3, 4>>, non_routes |-> {}] >>),
     profiles |-> Vec(<< [id |-> "J0",
                          nodes |-> [i \in 0..4 |-> Router(FALSE)],
                          edges |-> Vec(<< >>),
                          blocks |-> [i \in 0..2 |-> [reset |-> ResetNone]],
                          presets |-> Vec(<< >>)] >>)]

LineIdx == new_tables(LineConf)
RingIdx == new_tables(RingConf)
JunctionIdx == new_tables(JunctionConf)

ConfOf(name) ==
    CASE name = "main" -> Conf [] name = "ring" -> RingConf
      [] name = "junction" -> JunctionConf [] OTHER -> LineConf
IdxOf(name) ==
    CASE name = "main" -> Idx [] name = "ring" -> RingIdx
      [] name = "junction" -> JunctionIdx [] OTHER -> LineIdx

Job(conf, prof, orgn, dest) == [conf |-> conf, prof |-> prof, orgn |-> orgn, dest |-> dest]

\* the calls that pass set_route's guard: both ends are Router nodes
RouteJobs ==
    {Job("main", p, r[1], r[2]) : p \in DOMAIN Conf.profiles, r \in {2, 3, 4} \X {2, 3, 4}}
        \cup {Job("ring", p, r[1], r[2]) : p \in DOMAIN RingConf.profiles, r \in (0..3) \X (0..3)}
        \cup {Job("junction", 0, r[1], r[2]) : r \in (0..4) \X (0..4)}
        \cup {Job("line", 0, 0, LineLen - 1), Job("line", 0, LineLen - 1, 0),
               Job("line", 0, 0, LineLen - 2), Job("line", 0, 0, LineLen - 3)}

InitRoute ==
    /\ aerodromes = EmptyMap
    /\ upstream = <<>>
    /\ now = 0
    /\ pc = "idle"
    /\ ops = <<>>
    /\ ev = NoEv
    /\ ncmd = 0
    /\ nmsg = 0
    /\ \E j \in RouteJobs :
        /\ ConfOf(j.conf).profiles[j.prof].nodes[j.orgn][1] = "Router"
        /\ ConfOf(j.conf).profiles[j.prof].nodes[j.dest][1] = "Router"
        /\ solver = [job |-> j, rs |-> route_init(j.orgn), done |-> FALSE, calls |-> <<>>]
    /\ file = None
    /\ sent = {}
    /\ shown = None

\* up to k iterations of the loop the function is in
RECURSIVE route_burst(_, _, _, _, _, _, _)
route_burst(conf, idx, prof, dest, rs, phase, k) ==
    IF k = 0 \/ RouteDone(rs) \/ rs.status # phase THEN rs
    ELSE Let(route_iter(conf, idx, prof, dest, rs),
             LAMBDA r : route_burst(conf, idx, prof, dest, r, phase, k - 1))

SolverBurst ==
    \E j \in {solver.job}, rs \in {solver.rs} :
        solver' = [solver EXCEPT
                    !.rs = route_burst(ConfOf(j.conf), IdxOf(j.conf), j.prof, j.dest,
                                       rs, rs.status, Burst)]

\* iterations of the outer while loop
RouteStep ==
    /\ solver.rs.status = "search"
    /\ solver.rs.nodes # <<>>
    /\ SolverBurst
    /\ UNCHANGED <<client, file, sent, shown>>

\* iterations of the inner while loop
ReconStep ==
    /\ solver.rs.status = "recon"
    /\ SolverBurst
    /\ UNCHANGED <<client, file, sent, shown>>

\* what follows the loops: the early return, or the test of the chain and
\* the commit loop
RouteCommit ==
    /\ RouteDone(solver.rs)
    /\ ~solver.done
    /\ \E res \in {route_result(solver.rs)} :
        solver' = [solver EXCEPT
                    !.done = TRUE,
                    !.calls = IF res = None THEN <<>>
                              ELSE commit_calls(IdxOf(solver.job.conf), res[1])]
    /\ UNCHANGED <<client, file, sent, shown>>

NextRoute == RouteStep \/ ReconStep \/ RouteCommit

SpecRoute == InitRoute /\ [][NextRoute]_vars /\ WF_vars(NextRoute)

(***************************************************************************)
(* set_block on the aerodrome as it stands after set_profile(p) and the    *)
(* flush that follows, for each profile p of the configuration.            *)
(***************************************************************************)
InitCascade ==
    /\ \E p \in DOMAIN Conf.profiles :
            aerodromes = (ICAO :> take_pending(set_profile(new, p)).a)
    /\ upstream = <<>>
    /\ now = 0
    /\ pc = "idle"
    /\ ops = <<>>
    /\ ev = NoEv
    /\ ncmd = 0
    /\ nmsg = 0
    /\ solver = None
    /\ file = None
    /\ sent = {}
    /\ shown = None

NextCascade == SetBlock

SpecCascade == InitCascade /\ [][NextCascade]_vars

(***************************************************************************)
(* route_candidates and the Router arm of edge_state on a configuration    *)
(* with child nodes: P has the children Pa and Pb, M the children Ma and   *)
(* Mb, Q has none; block X joins P and Q and forbids the route Pb-Q, block *)
(* Y joins Q and M.  The blocks start in every pair of cells.              *)
(***************************************************************************)
FanConf ==
    [icao |-> "FAN",
     elements |-> Vec(<< >>),
     nodes |-> Vec(<< [id |-> "P", parent |-> None],
                      [id |-> "Pa", parent |-> Some(0)],
                      [id |-> "Pb", parent |-> Some(0)],
                      [id |-> "Q", parent |-> None],
                      [id |-> "M", parent |-> None],
                      [id |-> "Ma", parent |-> Some(4)],
                      [id |-> "Mb", parent |-> Some(4)] >>),
     edges |-> Vec(<< <<>>, <<>>, <<>> >>),
     blocks |-> Vec(<< [id |-> "X", nodes |-> <<0, 3>>, non_routes |-> {<<2, 3>>}],
                       [id |-> "Y", nodes |-> <<3, 4>>, non_routes |-> {}] >>),
     profiles |-> Vec(<< [id |-> "F0",
                          nodes |-> [i \in 0..6 |-> Router(FALSE)],
                          edges |-> Vec(<< EdgeRouter(0, {<<1, 3>>}),
                                           EdgeRouter(0, {<<2, 3>>}),
                                           EdgeRouter(1, {<<3, 5>>}) >>),
                          blocks |-> [i \in 0..1 |-> [reset |-> ResetNone]],
                          presets |-> Vec(<< >>)] >>)]

FanIdx == new_tables(FanConf)

FanStates == {Clear, Relax, Route(0, 3), Route(3, 0), Route(3, 4), Route(4, 3)}

FanCells == {[current |-> c, pending |-> p] : c \in FanStates, p \in {None} \cup {Some(x) : x \in FanStates}}

InitCandidates ==
    /\ aerodromes = EmptyMap
    /\ upstream = <<>>
    /\ now = 0
    /\ pc = "idle"
    /\ ops = <<>>
    /\ ev = NoEv
    /\ ncmd = 0
    /\ nmsg = 0
    /\ file = None
    /\ sent = {}
    /\ shown = None
    /\ \E x \in {c \in FanCells : state(c) \in {Clear, Relax, Route(0, 3), Route(3, 0)}},
          y \in {c \in FanCells : state(c) \in {Clear, Relax, Route(3, 4), Route(4, 3)}} :
            solver = [a |-> [profile |-> 0, blocks |-> Vec(<<x, y>>)],
                      cands |-> None, edge |-> None]

\* self.route_candidates(block)
Candidates ==
    /\ solver.cands = None
    /\ \E block \in DOMAIN FanConf.blocks :
        solver' = [solver EXCEPT
                    !.cands = Some(<<block, route_candidates(FanConf, FanIdx, solver.a, block)>>)]
    /\ UNCHANGED <<client, file, sent, shown>>

\* self.edge_state(edge) of a Router edge
EdgeRouterState ==
    /\ solver.edge = None
    /\ \E edge \in DOMAIN FanConf.edges :
        \E cond \in {FanConf.profiles[solver.a.profile].edges[edge]} :
            solver' = [solver EXCEPT
                        !.edge = Some(<<edge, edge_router(FanConf, FanIdx, solver.a, cond[2], cond[3])>>)]
    /\ UNCHANGED <<client, file, sent, shown>>

NextCandidates == Candidates \/ EdgeRouterState

SpecCandidates == InitCandidates /\ [][NextCandidates]_vars

(***************************************************************************)
(* The configuration codec.  A type that derives Encode and Decode is      *)
(* written field by field in declaration order; an enum writes the index   *)
(* of its variant first.  BINCODE_CONFIG is the standard configuration:    *)
(* little-endian, integers wider than a byte in the variable-length form,  *)
(* signed integers zigzagged first.  A type is described by a tuple whose  *)
(* first component names its shape.  Values: an integer is a number (below *)
(* 2^31 here), an f32 its four bytes, a String its bytes, an Option None   *)
(* or Some(v), a Vec a sequence, a struct the tuple of its fields, an enum *)
(* value <<variant index, fields>>.                                        *)
(***************************************************************************)
MAGIC == <<255, 66, 65, 82, 83, 19, 101, 117>>

U8 == <<"u8">>
UVar == <<"uvar">>
I32 == <<"i32">>
F32 == <<"f32">>
Bool == <<"bool">>
Str == <<"str">>
Opt(T) == <<"opt", T>>
VecOf(T) == <<"vec", T>>
Struct(fields) == <<"struct", fields>>
Enum(variants) == <<"enum", variants>>

Ok(v, p) == [ok |-> TRUE, val |-> v, pos |-> p]
Err(e) == [ok |-> FALSE, val |-> e, pos |-> 0]

to_le_bytes(v, n) == [i \in 1..n |-> (v \div (256 ^ (i - 1))) % 256]

RECURSIVE from_le_bytes(_)
from_le_bytes(b) == IF b = <<>> THEN 0 ELSE Head(b) + 256 * from_le_bytes(Tail(b))

\* u16::to_be_bytes
to_be_bytes(v) == <<(v \div 256) % 256, v % 256>>

varint_encode(v) ==
    IF v < 251 THEN <<v>>
    ELSE IF v < 65536 THEN <<251>> \o to_le_bytes(v, 2)
    ELSE <<252>> \o to_le_bytes(v, 4)

\* the bytes of one fixed-width field
take_bytes(bytes, pos, n) ==
    IF pos + n - 1 > Len(bytes) THEN Err("UnexpectedEnd")
    ELSE Ok(SubSeq(bytes, pos, pos + n - 1), pos + n)

varint_decode(bytes, pos) ==
    Let(take_bytes(bytes, pos, 1), LAMBDA d :
        IF ~d.ok THEN d
        ELSE IF d.val[1] < 251 THEN Ok(d.val[1], d.pos)
        ELSE IF d.val[1] \in {251, 252}
            THEN Let(take_bytes(bytes, d.pos, IF d.val[1] = 251 THEN 2 ELSE 4), LAMBDA w :
                    IF ~w.ok THEN w ELSE Ok(from_le_bytes(w.val), w.pos))
        ELSE Err("InvalidIntegerType"))

zigzag(v) == IF v >= 0 THEN 2 * v ELSE (-2) * v - 1
unzigzag(u) == IF u % 2 = 0 THEN u \div 2 ELSE -((u + 1) \div 2)

RECURSIVE encode_value(_, _), encode_seq(_, _)
encode_value(T, v) ==
    CASE T[1] = "u8" -> <<v>>
      [] T[1] = "uvar" -> varint_encode(v)
      [] T[1] = "i32" -> varint_encode(zigzag(v))
      [] T[1] = "f32" -> v
      [] T[1] = "bool" -> <<b2i(v)>>
      [] T[1] = "str" -> varint_encode(Len(v)) \o v
      [] T[1] = "opt" -> IF v = None THEN <<0>> ELSE <<1>> \o encode_value(T[2], v[1])
      [] T[1] = "vec" -> varint_encode(Len(v)) \o encode_seq([i \in 1..Len(v) |-> T[2]], v)
      [] T[1] = "struct" -> encode_seq(T[2], v)
      [] T[1] = "enum" -> varint_encode(v[1]) \o encode_seq(T[2][v[1] + 1], v[2])

encode_seq(Ts, vs) ==
    IF Ts = <<>> THEN <<>>
    ELSE encode_value(Head(Ts), Head(vs)) \o encode_seq(Tail(Ts), Tail(vs))

RECURSIVE decode_value(_, _, _), decode_seq(_, _, _, _)
decode_value(T, bytes, pos) ==
    CASE T[1] = "u8" ->
            Let(take_bytes(bytes, pos, 1), LAMBDA d :
                IF ~d.ok THEN d ELSE Ok(d.val[1], d.pos))
      [] T[1] = "uvar" -> varint_decode(bytes, pos)
      [] T[1] = "i32" ->
            Let(varint_decode(bytes, pos), LAMBDA d :
                IF ~d.ok THEN d ELSE Ok(unzigzag(d.val), d.pos))
      [] T[1] = "f32" -> take_bytes(bytes, pos, 4)
      [] T[1] = "bool" ->
            Let(take_bytes(bytes, pos, 1), LAMBDA d :
                IF ~d.ok THEN d
                ELSE IF d.val[1] > 1 THEN Err("InvalidBooleanValue")
                ELSE Ok(d.val[1] = 1, d.pos))
      [] T[1] = "str" ->
            Let(varint_decode(bytes, pos), LAMBDA n :
                IF ~n.ok THEN n
                ELSE Let(take_bytes(bytes, n.pos, n.val), LAMBDA d :
                        IF ~d.ok THEN d
                        ELSE IF \E i \in DOMAIN d.val : d.val[i] > 127 THEN Err("Utf8")
                        ELSE d))
      [] T[1] = "opt" ->
            Let(take_bytes(bytes, pos, 1), LAMBDA d :
                IF ~d.ok THEN d
                ELSE IF d.val[1] = 0 THEN Ok(None, d.pos)
                ELSE IF d.val[1] = 1
                    THEN Let(decode_value(T[2], bytes, d.pos), LAMBDA r :
                            IF ~r.ok THEN r ELSE Ok(Some(r.val), r.pos))
                ELSE Err("UnexpectedVariant"))
      [] T[1] = "vec" ->
            Let(varint_decode(bytes, pos), LAMBDA n :
                IF ~n.ok THEN n
                ELSE decode_seq([i \in 1..n.val |-> T[2]], bytes, n.pos, <<>>))
      [] T[1] = "struct" -> decode_seq(T[2], bytes, pos, <<>>)
      [] T[1] = "enum" ->
            Let(varint_decode(bytes, pos), LAMBDA d :
                IF ~d.ok THEN d
                ELSE IF d.val >= Len(T[2]) THEN Err("UnexpectedVariant")
                ELSE Let(decode_seq(T[2][d.val + 1], bytes, d.pos, <<>>), LAMBDA r :
                        IF ~r.ok THEN r ELSE Ok(<<d.val, r.val>>, r.pos)))

decode_seq(Ts, bytes, pos, acc) ==
    IF Ts = <<>> THEN Ok(acc, pos)
    ELSE Let(decode_value(Head(Ts), bytes, pos), LAMBDA r :
            IF ~r.ok THEN r
            ELSE decode_seq(Tail(Ts), bytes, r.pos, Append(acc, r.val)))

\* Ref<T>(usize, PhantomData<T>)
RefT == Struct(<<UVar>>)
NodeStateT == Enum(<< <<>>, <<>> >>)
EdgeStateT == Enum(<< <<>>, <<>> >>)
BlockStateT == Enum(<< <<>>, <<>>, << Struct(<<RefT, RefT>>) >> >>)
ResetConditionT == Enum(<< <<>>, <<UVar>> >>)
ElementConditionT == Enum(<< <<Bool>>, <<RefT>>, <<RefT>> >>)
ElementT == Struct(<<Str, ElementConditionT>>)
NodeT == Struct(<<Str, Opt(Str), Opt(RefT)>>)
EdgeT == Struct(<<>>)
BlockRouteT == Struct(<<RefT, RefT>>)
BlockT == Struct(<<Str, VecOf(RefT), VecOf(RefT), VecOf(BlockRouteT), VecOf(Str)>>)
NodeConditionT == Enum(<< <<NodeStateT>>, <<ResetConditionT>>, <<Bool>> >>)
NodeConjunctionT == Struct(<<VecOf(RefT), VecOf(RefT)>>)
NodeExpressionT == Struct(<<VecOf(NodeConjunctionT)>>)
EdgeConditionT == Enum(<< <<EdgeStateT>>, <<NodeExpressionT>>, <<RefT, VecOf(BlockRouteT)>> >>)
BlockConditionT == Struct(<<ResetConditionT>>)
PresetT ==
    Struct(<<Str, VecOf(Struct(<<RefT, NodeStateT>>)), VecOf(Struct(<<RefT, BlockStateT>>))>>)
ProfileT ==
    Struct(<<Str, Str, VecOf(NodeConditionT), VecOf(EdgeConditionT),
             VecOf(BlockConditionT), VecOf(PresetT)>>)

PointT == Struct(<<F32, F32>>)
GeoT == Struct(<<F32, F32>>)
GeoPointT == Struct(<<GeoT, PointT>>)
ColorT == Struct(<<U8, U8, U8, U8>>)
StrokeStyleT == Enum(<< <<>>, <<I32>> >>)
FillStyleT == Enum(<< <<>>, <<>>, <<I32>> >>)
StyleT ==
    Struct(<<StrokeStyleT, Struct(<<U8>>), Struct(<<I32>>), Struct(<<I32>>), ColorT,
             FillStyleT, ColorT>>)
PathT(T) == Struct(<<VecOf(T), RefT>>)
TargetT(T) == Struct(<<VecOf(VecOf(T))>>)
NodeDisplayT(T) == Struct(<<VecOf(PathT(T)), VecOf(PathT(T)), VecOf(PathT(T)), TargetT(T)>>)
EdgeDisplayT(T) == Struct(<<VecOf(PathT(T)), VecOf(PathT(T)), VecOf(PathT(T))>>)
BlockDisplayT(T) == Struct(<<TargetT(T)>>)
CountdownConditionT == Enum(<< <<RefT>>, <<RefT>> >>)
WidgetT(T) == Enum(<< <<T, F32, CountdownConditionT>> >>)
BoxT == Struct(<<PointT, PointT>>)
ViewT == Struct(<<Str, BoxT>>)
GeoMapT ==
    Struct(<<VecOf(NodeDisplayT(GeoPointT)), VecOf(EdgeDisplayT(GeoPointT)),
             VecOf(BlockDisplayT(GeoPointT)), VecOf(WidgetT(GeoPointT))>>)
MapT ==
    Struct(<<ColorT, VecOf(PathT(PointT)), VecOf(NodeDisplayT(PointT)),
             VecOf(EdgeDisplayT(PointT)), VecOf(BlockDisplayT(PointT)),
             VecOf(WidgetT(PointT)), VecOf(ViewT)>>)

AerodromeT ==
    Struct(<<Str, VecOf(ElementT), VecOf(NodeT), VecOf(EdgeT), VecOf(BlockT),
             VecOf(ProfileT), Opt(GeoMapT), VecOf(MapT), VecOf(StyleT)>>)
ConfigT == Struct(<<Opt(Str), Opt(Str), VecOf(AerodromeT)>>)
MapsT == Struct(<<VecOf(Str), VecOf(Str), VecOf(Str), Opt(GeoMapT), VecOf(MapT), VecOf(StyleT)>>)

Config_VERSION == 1
Maps_VERSION == 32770

TypeOf(kind) == IF kind = "Config" THEN ConfigT ELSE MapsT
VersionOf(kind) == IF kind = "Config" THEN Config_VERSION ELSE Maps_VERSION

\* The deflate stream.  The compressed body is carried in the stored form
\* of the format: one final block, its length, the complement of its
\* length, the bytes.
DeflateEncoder(data) ==
    <<1>> \o to_le_bytes(Len(data), 2) \o to_le_bytes(65535 - Len(data), 2) \o data

DeflateDecoder(bytes) ==
    Let(take_bytes(bytes, 1, 5), LAMBDA h :
        IF ~h.ok THEN Err("Io")
        ELSE IF h.val[1] # 1 THEN Err("Io")
        ELSE IF from_le_bytes(SubSeq(h.val, 2, 3)) + from_le_bytes(SubSeq(h.val, 4, 5)) # 65535
            THEN Err("Io")
        ELSE Let(take_bytes(bytes, 6, from_le_bytes(SubSeq(h.val, 2, 3))), LAMBDA d :
                IF ~d.ok THEN Err("Io") ELSE d))

\* Loadable::save with a VERSION written low byte first
save_little_endian(kind, c) ==
    MAGIC \o to_le_bytes(VersionOf(kind), 2) \o DeflateEncoder(encode_value(TypeOf(kind), c))

\* Loadable::save of a value of the type kind; the bytes given to the writer
save(kind, c) ==
    MAGIC \o to_be_bytes(VersionOf(kind)) \o DeflateEncoder(encode_value(TypeOf(kind), c))

\* Loadable::load that does not look at the version
load_any_version(kind, bytes) ==
    Let(take_bytes(bytes, 1, Len(MAGIC)), LAMBDA m :
        IF ~m.ok THEN Err("Io")
        ELSE IF m.val # MAGIC THEN Err("invalid config file")
        ELSE Let(take_bytes(bytes, m.pos, 2), LAMBDA v :
            IF ~v.ok THEN Err("Io")
            ELSE Let(DeflateDecoder(SubSeq(bytes, v.pos, Len(bytes))), LAMBDA body :
                IF ~body.ok THEN body
                ELSE decode_value(TypeOf(kind), body.val, 1))))

\* Loadable::load as the type kind; ok, and val the value or the error
load(kind, bytes) ==
    Let(take_bytes(bytes, 1, Len(MAGIC)), LAMBDA m :
        IF ~m.ok THEN Err("Io")
        ELSE IF m.val # MAGIC THEN Err("invalid config file")
        ELSE Let(take_bytes(bytes, m.pos, 2), LAMBDA v :
            IF ~v.ok THEN Err("Io")
            ELSE IF v.val # to_be_bytes(VersionOf(kind)) THEN Err("unsupported config version")
            ELSE Let(DeflateDecoder(SubSeq(bytes, v.pos, Len(bytes))), LAMBDA body :
                IF ~body.ok THEN body
                ELSE decode_value(TypeOf(kind), body.val, 1))))

\* Aerodrome::encode
encode(a) == encode_value(AerodromeT, a)

\* Aerodrome::decode
decode(serialised) == decode_value(AerodromeT, serialised, 1)

(***************************************************************************)
(* Files.  A value of a Loadable type is saved, the header of the written  *)
(* bytes is possibly damaged on the way, and the bytes are loaded as       *)
(* either Loadable type; an aerodrome is encoded bare and decoded.         *)
(***************************************************************************)
MaxItems == 2

Variant(i, fields) == <<i, fields>>
Unit(i) == <<i, <<>>>>
RefTo(n) == <<n>>

S_EGLL == <<69, 71, 76, 76>>
S_A == <<65>>
S_B == <<66>>
NoFloat == <<0, 0, 0, 0>>
\* 1.5f32, low byte first
Float15 == <<0, 0, 192, 63>>

\* the reset times at the edges of the integer forms
TimeValues == {0, 250, 251, 65535, 65536, 70000}

SampleStyle ==
    <<Variant(1, <<-3>>), <<8>>, <<0>>, <<2>>, <<255, 0, 255, 0>>,
      Variant(2, <<45>>), <<1, 2, 3, 4>>>>

SamplePath(point) == << <<point>>, RefTo(0)>>

SampleGeoPoint == << <<Float15, NoFloat>>, <<NoFloat, Float15>> >>

SampleGeoMap ==
    << << << <<SamplePath(SampleGeoPoint)>>, <<>>, <<>>, << << <<SampleGeoPoint>> >> >> >> >>,
       << << <<>>, <<SamplePath(SampleGeoPoint)>>, <<>> >> >>,
       << << << <<>> >> >> >>,
       << Variant(0, <<SampleGeoPoint, Float15, Variant(1, <<RefTo(0)>>)>>) >> >>

SampleMap ==
    << <<0, 0, 0, 255>>, <<SamplePath(<<Float15, NoFloat>>)>>, <<>>, <<>>, <<>>, <<>>,
       << <<S_A, << <<NoFloat, NoFloat>>, <<Float15, Float15>> >> >> >> >>

SampleProfile(t) ==
    <<S_A, S_B,
      <<Variant(0, <<Unit(1)>>), Variant(1, <<Variant(1, <<t>>)>>), Variant(2, <<TRUE>>)>>,
      <<Variant(0, <<Unit(0)>>),
        Variant(1, << << << << <<RefTo(0)>>, <<RefTo(1)>> >> >> >> >>),
        Variant(2, <<RefTo(0), << <<RefTo(1), RefTo(2)>> >> >>)>>,
      << <<Unit(0)>>, <<Variant(1, <<t>>)>> >>,
      << <<S_B, << <<RefTo(1), Unit(0)>> >>,
          << <<RefTo(0), Unit(1)>>, <<RefTo(1), Variant(2, << <<RefTo(0), RefTo(2)>> >>)>> >> >> >> >>

EmptyAerodrome == <<S_EGLL, <<>>, <<>>, <<>>, <<>>, <<>>, None, <<>>, <<>>>>

SampleAerodrome(t) ==
    <<S_EGLL,
      << <<S_A, Variant(0, <<TRUE>>)>>, <<S_B, Variant(1, <<RefTo(1)>>)>>,
         <<S_A \o S_B, Variant(2, <<RefTo(0)>>)>> >>,
      << <<S_A, None, None>>, <<S_B, Some(S_EGLL), Some(RefTo(0))>>, <<S_EGLL, None, None>> >>,
      << <<>>, <<>>, <<>> >>,
      << <<S_A, <<RefTo(0), RefTo(2)>>, <<RefTo(0)>>, << <<RefTo(1), RefTo(2)>> >>, <<S_B>> >>,
         <<S_B, <<>>, <<>>, <<>>, <<>> >> >>,
      <<SampleProfile(t)>>,
      Some(SampleGeoMap), <<SampleMap>>, <<SampleStyle>>>>

Aerodromes == {EmptyAerodrome} \cup {SampleAerodrome(t) : t \in TimeValues}

RECURSIVE ListsOf(_, _)
ListsOf(S, n) ==
    IF n = 0 THEN {<<>>}
    ELSE ListsOf(S, n - 1) \cup {Append(l, x) : l \in {m \in ListsOf(S, n - 1) : Len(m) = n - 1}, x \in S}

Configs ==
    {<<name, None, list>> :
        name \in {None, Some(S_A)},
        list \in ListsOf({EmptyAerodrome, SampleAerodrome(251)}, MaxItems)}

MapsValues ==
    {<<names, <<>>, names, geo, maps, <<SampleStyle>>>> :
        names \in ListsOf({S_A, S_EGLL}, MaxItems),
        geo \in {None, Some(SampleGeoMap)},
        maps \in {<<>>, <<SampleMap>>}}

File(kind, value) ==
    [kind |-> kind, value |-> value, bytes |-> None, damaged |-> FALSE,
     as |-> None, result |-> None]

InitCodec ==
    /\ aerodromes = EmptyMap
    /\ upstream = <<>>
    /\ now = 0
    /\ pc = "idle"
    /\ ops = <<>>
    /\ ev = NoEv
    /\ ncmd = 0
    /\ nmsg = 0
    /\ solver = None
    /\ sent = {}
    /\ shown = None
    /\ file \in {File("Config", c) : c \in Configs}
            \cup {File("Maps", c) : c \in MapsValues}
            \cup {File("Aerodrome", a) : a \in Aerodromes}

\* c.save(writer)
Save ==
    /\ file.kind \in {"Config", "Maps"}
    /\ file.bytes = None
    /\ file' = [file EXCEPT !.bytes = Some(save(file.kind, file.value))]
    /\ UNCHANGED <<client, solver, sent, shown>>

\* one byte of the header changes between the writer and the reader
Damage ==
    /\ file.kind \in {"Config", "Maps"}
    /\ file.bytes # None
    /\ ~file.damaged
    /\ file.result = None
    /\ \E i \in 1..(Len(MAGIC) + 2), d \in {1, 128} :
        file' = [file EXCEPT !.bytes = Some([file.bytes[1] EXCEPT ![i] = (@ + d) % 256]),
                             !.damaged = TRUE]
    /\ UNCHANGED <<client, solver, sent, shown>>

\* T::load(reader), T either Loadable type
Load ==
    /\ file.kind \in {"Config", "Maps"}
    /\ file.bytes # None
    /\ file.result = None
    /\ \E kind \in {"Config", "Maps"} :
        file' = [file EXCEPT !.as = Some(kind), !.result = Some(load(kind, file.bytes[1]))]
    /\ UNCHANGED <<client, solver, sent, shown>>

\* a.encode()
Encode ==
    /\ file.kind = "Aerodrome"
    /\ file.bytes = None
    /\ file' = [file EXCEPT !.bytes = Some(encode(file.value))]
    /\ UNCHANGED <<client, solver, sent, shown>>

\* Aerodrome::decode(serialised)
Decode ==
    /\ file.kind = "Aerodrome"
    /\ file.bytes # None
    /\ file.result = None
    /\ file' = [file EXCEPT !.as = Some("Aerodrome"), !.result = Some(decode(file.bytes[1]))]
    /\ UNCHANGED <<client, solver, sent, shown>>

NextCodec == Save \/ Damage \/ Load \/ Encode \/ Decode

SpecCodec == InitCodec /\ [][NextCodec]_vars

(***************************************************************************)
(* Properties.  Steps of the client are told apart by pc: the receive loop *)
(* is the only step that ends in "recv", the aerodrome's tick() the only   *)
(* one that ends in "flush", take_pending the only one that starts there.  *)
(***************************************************************************)
A2 == aerodromes'[ICAO]

\* the receive loop applies a server patch to the tracked aerodrome
RecvPatch == pc' = "recv" /\ Tracked /\ ev'.msg # None /\ ev'.msg[1].type = "Patch"
RecvdPatch == ev'.msg[1].patch

\* the node and block indices a patch entry writes, by the entry's id
NodesOf(id) == {i \in DOMAIN Conf.nodes : Conf.nodes[i].id = id}
BlocksOf(id) == {i \in DOMAIN Conf.blocks : Conf.blocks[i].id = id}

\* a wire block state that names only nodes of the configuration
Convertible(ipc) ==
    IsRoute(ipc) => NodesOf(ipc[2]) # {} /\ NodesOf(ipc[3]) # {}

\* the wire form of a cell's pending is the wire value w
PendingIs(cell, w) == cell.pending # None /\ bs_conf_to_ipc(cell.pending[1]) = w

HasTimer(timers, i) == \E k \in DOMAIN timers : timers[k][1] = i

TimersOf(timers, i) == SelectSeq(timers, LAMBDA tm : tm[1] = i)

\* C1 (pending settlement): when a server patch asserts for a node or a
\* block the value that entity holds as pending, the same step sets current
\* to that value and clears pending, and the entity's effective value is
\* what it was before the patch.
C1_PendingSettlement ==
    [][RecvPatch =>
        /\ \A id \in DOMAIN RecvdPatch.nodes : \A i \in NodesOf(id) :
            A.nodes[i].pending = Some(RecvdPatch.nodes[id]) =>
                /\ A2.nodes[i].current = RecvdPatch.nodes[id]
                /\ A2.nodes[i].pending = None
                /\ state(A2.nodes[i]) = state(A.nodes[i])
        /\ \A id \in DOMAIN RecvdPatch.blocks : \A i \in BlocksOf(id) :
            PendingIs(A.blocks[i], RecvdPatch.blocks[id]) =>
                /\ bs_conf_to_ipc(A2.blocks[i].current) = RecvdPatch.blocks[id]
                /\ A2.blocks[i].pending = None
                /\ state(A2.blocks[i]) = state(A.blocks[i])]_vars

\* a patch has just settled the prediction of a node and of a block, each
\* made by an operator command
C1_Witness ==
    /\ pc = "recv"
    /\ Tracked
    /\ \E e \in ev.settled : e[1] = "node" /\ aerodromes[ICAO].nodes[e[2]].pending = None
    /\ nmsg >= 2 /\ ncmd >= 1

C1_WitnessBlock ==
    /\ pc = "recv"
    /\ Tracked
    /\ \E e \in ev.settled : e[1] = "block" /\ IsRoute(aerodromes[ICAO].blocks[e[2]].current)

\* what C2 says of one patch: the timers of every entity written with a
\* value other than its pending are gone
C2_Wipes ==
    /\ \A id \in DOMAIN RecvdPatch.nodes : \A i \in NodesOf(id) :
        A.nodes[i].pending # Some(RecvdPatch.nodes[id]) => ~HasTimer(A2.node_timers, i)
    /\ \A id \in DOMAIN RecvdPatch.blocks : \A i \in BlocksOf(id) :
        Convertible(RecvdPatch.blocks[id]) /\ ~PendingIs(A.blocks[i], RecvdPatch.blocks[id])
            => ~HasTimer(A2.block_timers, i)

\* and the timers of every entity written with its pending are as they were
C2_Keeps ==
    /\ \A id \in DOMAIN RecvdPatch.nodes : \A i \in NodesOf(id) :
        A.nodes[i].pending = Some(RecvdPatch.nodes[id])
            => TimersOf(A2.node_timers, i) = TimersOf(A.node_timers, i)
    /\ \A id \in DOMAIN RecvdPatch.blocks : \A i \in BlocksOf(id) :
        PendingIs(A.blocks[i], RecvdPatch.blocks[id])
            => TimersOf(A2.block_timers, i) = TimersOf(A.block_timers, i)

NamesKnownProfile(patch) ==
    patch.profile # None /\ \E i \in DOMAIN Conf.profiles : Conf.profiles[i].id = patch.profile[1]

\* C2 as stated (contradiction wipes timers): a server patch that writes a
\* node or block with a value other than its pending (no pending included)
\* removes every timer of that entity, and a patch that writes the pending
\* value leaves the entity's timer armed.
C2_AsStated == [][RecvPatch => C2_Wipes /\ C2_Keeps]_vars

\* C2 (amended): a server patch that writes a node or block with a value
\* other than its pending removes every timer of that entity; a patch that
\* writes the pending value leaves the entity's timer armed provided the
\* patch names no known profile (such a patch clears every timer).
C2_ContradictionWipesTimers ==
    [][RecvPatch => C2_Wipes /\ (~NamesKnownProfile(RecvdPatch) => C2_Keeps)]_vars

\* a patch has just written an entity that had a timer but no pending
C2_Witness ==
    /\ pc = "recv"
    /\ ev.contradicted \cap ev.armed \cap ev.unpredicted # {}

\* a patch without profile has just settled an entity whose timer is armed
C2_WitnessKept ==
    /\ pc = "recv"
    /\ Tracked
    /\ ev.msg # None /\ ev.msg[1].type = "Patch" /\ ev.msg[1].patch.profile = None
    /\ \E e \in ev.settled \cap ev.armed :
        e[1] = "node" /\ HasTimer(aerodromes[ICAO].node_timers, e[2])

\* take_pending runs on the tracked aerodrome
Flush == pc = "flush" /\ Tracked

\* the scenery and the patch sent by the last flush
SentScenery(up) ==
    IF \E k \in DOMAIN up : up[k].type = "Scenery"
    THEN up[CHOOSE k \in DOMAIN up : up[k].type = "Scenery"].scenery
    ELSE EmptyMap

SentPatch(up) ==
    IF \E k \in DOMAIN up : up[k].type = "Patch"
    THEN up[CHOOSE k \in DOMAIN up : up[k].type = "Patch"].patch
    ELSE EmptyPatch

ElementsOf(id) == {e \in DOMAIN Conf.elements : Conf.elements[e].id = id}

\* C3 (scenery is a subset of the touched set): in a flush whose pending
\* patch carries no profile, every element id of the scenery belongs to an
\* element bound to a node of pending_nodes or to an edge whose computed
\* state differs from previous_edges; no other element is emitted.
C3_SceneryWithinTouched ==
    [][Flush /\ A.pending_patch.profile = None /\ pc' = "idle" =>
        \A id \in DOMAIN SentScenery(upstream') : \E e \in ElementsOf(id) :
            LET cond == Conf.elements[e].condition IN
            \/ cond[1] = "Node" /\ cond[2] \in Range(A.pending_nodes)
            \/ cond[1] = "Edge" /\ calculate_edges(A)[cond[2]] # A.previous_edges[cond[2]]]_vars

\* a flush without profile change has sent a scenery with the element of a
\* written node and the element of a changed edge, and nothing else
C3_Witness ==
    /\ pc = "idle"
    /\ SentPatch(upstream).profile = None
    /\ DOMAIN SentScenery(upstream) = {"E5", "E2"}

LastOp == ops[Len(ops)]

\* C4 (profile switch gives a full refresh): when set_profile(i) with i in
\* range (the active profile included) is the last command before a flush,
\* that flush sends a patch and a scenery; the scenery has one entry per
\* element of the configuration, the patch's profile is profile i's id and
\* the patch lists every node id and every block id with its default value.
C4_ProfileFullRefresh ==
    [][Flush /\ ops # <<>> /\ LastOp[1] = "set_profile" /\ LastOp[2] \in DOMAIN Conf.profiles =>
        /\ pc' = "idle"
        /\ DOMAIN SentScenery(upstream') = {Conf.elements[e].id : e \in DOMAIN Conf.elements}
        /\ SentPatch(upstream').profile = Some(Conf.profiles[LastOp[2]].id)
        /\ DOMAIN SentPatch(upstream').nodes = {Conf.nodes[n].id : n \in DOMAIN Conf.nodes}
        /\ \A n \in DOMAIN Conf.nodes :
            SentPatch(upstream').nodes[Conf.nodes[n].id]
                = NodeDefault(Conf.profiles[LastOp[2]].nodes[n])
        /\ DOMAIN SentPatch(upstream').blocks = {Conf.blocks[b].id : b \in DOMAIN Conf.blocks}
        /\ \A b \in DOMAIN Conf.blocks : SentPatch(upstream').blocks[Conf.blocks[b].id] = Clear]_vars

\* the flush after set_profile(0), issued while profile 0 was active and a
\* node was away from its default, has sent the full refresh
C4_Witness ==
    /\ pc = "idle"
    /\ Tracked
    /\ ncmd = 2
    /\ aerodromes[ICAO].profile = 0
    /\ SentPatch(upstream).profile = Some("P0")
    /\ SentPatch(upstream).nodes["D1"]
    /\ DOMAIN SentScenery(upstream) = {"E1", "E2", "E3", "E4", "E5"}

\* the blocks that list the node among their nodes
Incident(node) == {b \in DOMAIN Conf.blocks : node \in Range(Conf.blocks[b].nodes)}

\* the block's effective state is Relax or a Route through the node
Darkens(a, b, node) ==
    LET bs == state(a.blocks[b]) IN
    bs = Relax \/ (IsRoute(bs) /\ (bs[2] = node \/ bs[3] = node))

\* C5 as stated (Router-node invariant): for every node whose active
\* condition is Router, node_state is false if at least one incident block
\* is Relax or a Route through the node, and true otherwise.
C5_AsStated ==
    Tracked =>
        \A n \in DOMAIN Conf.nodes :
            IsRouter(A, n) => (node_state(A, n) <=> ~\E b \in Incident(n) : Darkens(A, b, n))

\* C5 (amended): for every node whose active condition is Router and that
\* is on one or two blocks, node_state is false if and only if every
\* incident block is Relax or a Route through the node; one incident block
\* that is Clear, or a Route elsewhere, keeps the node lit.
C5_RouterNodeInvariant ==
    Tracked =>
        \A n \in DOMAIN Conf.nodes :
            IsRouter(A, n) /\ Cardinality(Incident(n)) \in {1, 2} =>
                (node_state(A, n) <=> \E b \in Incident(n) : ~Darkens(A, b, n))

\* the Router node T between a Relax block and a Clear block is lit, and a
\* Router node on one block that is Relax is dark
C5_Witness ==
    /\ Tracked
    /\ IsRouter(A, 3) /\ Darkens(A, 0, 3) /\ ~Darkens(A, 1, 3) /\ node_state(A, 3)
    /\ IsRouter(A, 2) /\ ~node_state(A, 2)

\* no key was put on the deque more than once
EnqueuedOnce == \A k \in DOMAIN solver.rs.pushes : solver.rs.pushes[k] <= 1

\* C6 as stated (route solver termination): on every configuration and for
\* every pair (o,d), set_route leaves its loops; the search puts each
\* (node, side) key on the deque at most once, and the chain reconstruction
\* performs at most 1000 iterations.
C6_AsStated ==
    /\ [](EnqueuedOnce /\ solver.rs.i <= ChainGuard)
    /\ <>RouteDone(solver.rs)

\* C6 (amended): set_route leaves its loops; the search puts each key on
\* the deque at most once, and the chain reconstruction performs at most
\* 1001 iterations: the guard i > 1000 is tested after the push of the
\* iteration, so the 1001st iteration runs before the overflow return.
C6_RouteSolverTermination ==
    /\ [](EnqueuedOnce /\ solver.rs.i <= ChainGuard + 1)
    /\ <>RouteDone(solver.rs)

\* the reconstruction of a chain of more than 1001 keys has returned on
\* overflow in its 1001st iteration, with keys of the chain still to walk
C6_Witness ==
    /\ solver.rs.status = "overflow"
    /\ solver.rs.i = ChainGuard + 1
    /\ solver.rs.prev # None

\* C7 (cascade idempotence): set_block(b,s) issued a second time right
\* after set_block(b,s) leaves current and pending of every block as the
\* first call left them.
C7_CascadeIdempotence ==
    [][Tracked /\ ops # <<>> /\ LastOp[1] = "set_block" /\ ops' = Append(ops, LastOp) =>
        A2.blocks = A.blocks]_vars

\* set_block(B1, Route(R1,T)) was issued twice in a row and the cascade
\* through the transparent node T has written B2 as well
C7_Witness ==
    /\ Tracked
    /\ ops = << <<"set_block", 0, Route(2, 3)>>, <<"set_block", 0, Route(2, 3)>> >>
    /\ A.blocks[0].pending = Some(Route(2, 3))
    /\ A.blocks[1].pending = Some(Route(2, 3))

\* the elements bound to a node
BoundTo(n) == {e \in DOMAIN Conf.elements : Conf.elements[e].condition = ElemNode(n)}

\* a patch that is exactly nodes = {id : v}
IsOneNode(patch) ==
    patch.profile = None /\ DOMAIN patch.blocks = {} /\ Cardinality(DOMAIN patch.nodes) = 1

\* set_node on a Direct node is the only local operation since the last
\* flush (no other command, no timer firing) and the tick applied no message
ToggleOnly ==
    /\ Flush
    /\ Len(ops) = 1 /\ ops[1][1] = "set_node" /\ ops[1][4] = "Direct"
    /\ ev.n = 0

\* the message applied is the echo of the patch the last flush sent, which
\* was exactly nodes = {id : v}, and no command was issued since
C8_EchoOf(patch) ==
    /\ IsOneNode(SentPatch(upstream))
    /\ patch = SentPatch(upstream)

\* the tick that received the echo, and nothing else, is at its flush, no
\* timer fired in it, and the echo found the toggled node's pending still
\* equal to it (no other server message had overtaken the toggle)
C8_AfterEcho ==
    /\ Flush
    /\ ev.n = 1 /\ ev.msg # None /\ ev.msg[1].type = "Patch"
    /\ C8_EchoOf(ev.msg[1].patch)
    /\ ev.settled # {} /\ ev.contradicted = {}
    /\ ops = <<>>

\* C8 (single toggle): when set_node(n,v) on a Direct node is the only
\* pending change (no other command, timer firing or server message since
\* the last flush), the flush sends exactly nodes = {id(n) : v} and a
\* scenery that maps every element bound to n to v; the server's echo of
\* that patch clears the node's pending; and the flush of the tick that
\* received the echo alone while the toggle was still pending, with no
\* timer firing, sends nothing.
C8_SingleToggle ==
    [][/\ ToggleOnly =>
            /\ pc' = "idle"
            /\ SentPatch(upstream') =
                [profile |-> None,
                 nodes |-> (Conf.nodes[ops[1][2]].id :> ops[1][3]),
                 blocks |-> EmptyMap]
            /\ \A e \in BoundTo(ops[1][2]) :
                /\ Conf.elements[e].id \in DOMAIN SentScenery(upstream')
                /\ SentScenery(upstream')[Conf.elements[e].id] = ops[1][3]
       /\ RecvPatch /\ C8_EchoOf(RecvdPatch) =>
            \A id \in DOMAIN RecvdPatch.nodes : \A i \in NodesOf(id) :
                A2.nodes[i].pending = None
       /\ C8_AfterEcho => pc' = "idle" /\ upstream' = <<>>]_vars

\* set_node(D1, false) was flushed as nodes = {D1 : false} with scenery
\* {E1 : false}, the echo has cleared D1's pending, and the tick is at its
\* flush with nothing to send
C8_Witness ==
    /\ C8_AfterEcho
    /\ SentPatch(upstream).nodes = ("D1" :> FALSE)
    /\ SentScenery(upstream) = ("E1" :> FALSE)
    /\ A.nodes[0] = [current |-> FALSE, pending |-> None]
    /\ A.pending_patch = EmptyPatch

\* C9 (auto-reset): a node timer stands for set_node(n,false) at time t on
\* a Direct node with reset TimeSecs(k) and no later write to n; its
\* deadline is t+k.  The aerodrome tick that runs after the deadline of an
\* armed timer raises the node (pending true), records nodes = {id(n) :
\* true} in the patch and n among the touched nodes for that tick's flush,
\* whatever other timers are armed.
C9_AutoReset ==
    [][pc' = "flush" /\ Tracked =>
        \A k \in DOMAIN A.node_timers :
            A.node_timers[k][2] < now =>
                /\ A2.nodes[A.node_timers[k][1]].pending = Some(TRUE)
                /\ Conf.nodes[A.node_timers[k][1]].id \in DOMAIN A2.pending_patch.nodes
                /\ A2.pending_patch.nodes[Conf.nodes[A.node_timers[k][1]].id]
                /\ A.node_timers[k][1] \in Range(A2.pending_nodes)]_vars

\* the step is apply_preset(i) with i a preset of the active profile
PresetStep(i) ==
    /\ Tracked
    /\ ops' = Append(ops, <<"apply_preset", i>>)
    /\ i \in DOMAIN Conf.profiles[A.profile].presets

\* the in-range assignments of a preset's list, as positions in the list
InRange(list, v) == {k \in 1..Len(list) : list[k][1] \in DOMAIN v}

\* C10 (preset application): after apply_preset(i) with i in range, the
\* pending patch's node and block maps hold exactly the preset's in-range
\* assignments, whatever was recorded since the last flush; every named
\* node and block has the preset value as pending; no timer remains.
C10_PresetApplication ==
    [][\A i \in PresetArgs : PresetStep(i) =>
        LET preset == Conf.profiles[A.profile].presets[i]
            ns == InRange(preset.nodes, Conf.nodes)
            bs == InRange(preset.blocks, Conf.blocks)
        IN  /\ DOMAIN A2.pending_patch.nodes = {Conf.nodes[preset.nodes[k][1]].id : k \in ns}
            /\ \A k \in ns :
                /\ A2.pending_patch.nodes[Conf.nodes[preset.nodes[k][1]].id]
                    = (preset.nodes[k][2] = On)
                /\ A2.nodes[preset.nodes[k][1]].pending = Some(preset.nodes[k][2] = On)
            /\ DOMAIN A2.pending_patch.blocks = {Conf.blocks[preset.blocks[k][1]].id : k \in bs}
            /\ \A k \in bs :
                /\ A2.pending_patch.blocks[Conf.blocks[preset.blocks[k][1]].id]
                    = bs_conf_to_ipc(preset.blocks[k][2])
                /\ A2.blocks[preset.blocks[k][1]].pending = Some(preset.blocks[k][2])
            /\ A2.node_timers = <<>>
            /\ A2.block_timers = <<>>]_vars

\* the preset was applied after set_block(B2, Relax): the patch holds the
\* preset's three assignments and no longer the entry for B2
C10_Witness ==
    /\ Tracked
    /\ ops = << <<"set_block", 1, Relax>>, <<"apply_preset", 0>> >>
    /\ A.pending_patch.nodes = ("D1" :> FALSE) @@ ("D2" :> TRUE)
    /\ A.pending_patch.blocks = ("B1" :> Relax)
    /\ A.node_timers = <<>> /\ A.block_timers = <<>>

\* the step is the command set_route((o, d)) on the tracked aerodrome
RouteCall(o, d) == Tracked /\ ops' = Append(ops, <<"set_route", o, d>>)

\* the blocks that have both nodes among their parents
SharedBlocks(o, d) ==
    {b \in DOMAIN Conf.blocks : {o, d} \subseteq Range(Conf.blocks[b].nodes)}

\* the blocks of the chain set_route commits from a, or {} when it commits
\* none: the block on the recorded side of the later element of each pair
ChainBlocks(a, o, d) ==
    IF ~IsRouter(a, o) \/ ~IsRouter(a, d) THEN {}
    ELSE Let(route_result(route_search(Conf, Idx, a.profile, d, route_init(o))),
             LAMBDA res :
                IF res = None THEN {}
                ELSE {Idx.node_blocks[res[1][k + 1][1]][b2i(res[1][k + 1][2])] :
                        k \in 1..(Len(res[1]) - 1)})

\* C11 (simple route and its frame): set_route((N1,N2)) on two different
\* Router nodes that are the parents of one block B sets B's pending to
\* Route(N1,N2) and changes no other block; every set_route changes only
\* blocks of the committed chain and leaves the node cells, the profile and
\* pending_nodes as they were.
C11_SimpleRouteFrame ==
    [][\A r \in RouteArgs : RouteCall(r[1], r[2]) =>
        /\ A2.nodes = A.nodes
        /\ A2.profile = A.profile
        /\ A2.pending_nodes = A.pending_nodes
        /\ \A b \in DOMAIN Conf.blocks :
                A2.blocks[b] # A.blocks[b] => b \in ChainBlocks(A, r[1], r[2])
        /\ (r[1] # r[2] /\ IsRouter(A, r[1]) /\ IsRouter(A, r[2])) =>
                \A b \in SharedBlocks(r[1], r[2]) :
                    /\ A2.blocks[b].pending = Some(Route(r[1], r[2]))
                    /\ \A c \in DOMAIN Conf.blocks : c # b => A2.blocks[c] = A.blocks[c]]_vars

\* set_route((R1, T)) with both ends Router nodes of block B1 has written
\* Route(R1, T) to B1 alone
C11_Witness ==
    /\ Tracked
    /\ ops # <<>> /\ LastOp = <<"set_route", 2, 3>>
    /\ A.profile = 1
    /\ A.blocks[0].pending = Some(Route(2, 3))
    /\ A.blocks[1].pending = None

\* the step is the command set_block(b, s) on the tracked aerodrome
BlockCall(b, s) == Tracked /\ ops' = Append(ops, <<"set_block", b, s>>)

\* the blocks that share with a block of bs a parent node that is Fixed-Off
\* in profile p
Across(p, bs) ==
    {c \in DOMAIN Conf.blocks :
        \E b \in bs : \E n \in Range(Conf.blocks[b].nodes) :
            /\ Conf.profiles[p].nodes[n] = Fixed(Off)
            /\ n \in Range(Conf.blocks[c].nodes)}

\* the blocks reachable from bs by crossing Fixed-Off nodes any number of times
RECURSIVE Reach(_, _)
Reach(p, bs) ==
    IF Across(p, bs) \subseteq bs THEN bs ELSE Reach(p, bs \cup Across(p, bs))

\* C12 (block cascade closure): set_block(b,s) with b in range writes s as
\* pending to b and to every block reachable from b by crossing parent
\* nodes that are Fixed-Off in the active profile, and leaves every other
\* block as it was; a Router, Direct or Fixed-On node is not crossed.
C12_CascadeClosure ==
    [][\A r \in BlockArgs : BlockCall(r[1], r[2]) /\ r[1] < VLen(Conf.blocks) =>
        \A c \in DOMAIN Conf.blocks :
            IF c \in Reach(A.profile, {r[1]})
            THEN A2.blocks[c] = [current |-> A.blocks[c].current, pending |-> Some(r[2])]
            ELSE A2.blocks[c] = A.blocks[c]]_vars

\* in profile P0, where T is Fixed-Off, set_block(B2, Relax) has written
\* Relax to B2 and, across T, to B1
C12_Witness ==
    /\ Tracked
    /\ A.profile = 0
    /\ ops = << <<"set_block", 1, Relax>> >>
    /\ A.blocks[0].pending = Some(Relax)
    /\ A.blocks[1].pending = Some(Relax)

\* in profiles P1, P2 and P3, where T is Router, Fixed-On and Direct,
\* set_block(B1, Relax) has written B1 alone
C12_WitnessStop ==
    /\ Tracked
    /\ A.profile \in {1, 2, 3}
    /\ ops = << <<"set_block", 0, Relax>> >>
    /\ A.blocks[0].pending = Some(Relax)
    /\ A.blocks[1].pending = None

\* a local operation of the list can have written the node's entry: set_node
\* on that node while it was Direct, a set_profile in range, apply_preset or
\* a timer firing
WroteNode(list, id) ==
    \E k \in DOMAIN list :
        \/ list[k][1] = "set_node" /\ list[k][4] = "Direct" /\ list[k][2] \in NodesOf(id)
        \/ list[k][1] = "set_profile" /\ list[k][2] \in DOMAIN Conf.profiles
        \/ list[k][1] \in {"apply_preset", "timer"}

\* a local operation of the list can have written a block entry
WroteBlock(list) ==
    \E k \in DOMAIN list :
        \/ list[k][1] \in {"set_block", "set_route", "apply_preset", "timer"}
        \/ list[k][1] = "set_profile" /\ list[k][2] \in DOMAIN Conf.profiles

\* a set_profile of the list wrote the profile id
WroteProfile(list, id) ==
    \E k \in DOMAIN list :
        /\ list[k][1] = "set_profile" /\ list[k][2] \in DOMAIN Conf.profiles
        /\ Conf.profiles[list[k][2]].id = id

\* every entry of the patch was written by a local operation of the list
LocallyWritten(patch, list) ==
    /\ \A id \in DOMAIN patch.nodes : WroteNode(list, id)
    /\ DOMAIN patch.blocks # {} => WroteBlock(list)
    /\ patch.profile # None => WroteProfile(list, patch.profile[1])

\* C13 (upstream patches carry only locally originated changes): every
\* entry of the pending patch was written by a local operation (set_node,
\* set_block, set_route, set_profile, apply_preset or a timer firing) since
\* the previous flush; applying a server patch leaves the pending patch as
\* it was; and the flush sends the pending patch and nothing else.
C13_LocalOriginOnly ==
    [][/\ Tracked => LocallyWritten(A.pending_patch, ops)
       /\ RecvPatch => A2.pending_patch = A.pending_patch
       /\ Flush /\ pc' = "idle" => SentPatch(upstream') = A.pending_patch]_vars

\* the server has lowered D2 in the tick whose flush sent the operator's
\* nodes = {D1 : false}: the upstream patch has no entry for D2
C13_Witness ==
    /\ Tracked /\ pc = "idle"
    /\ A.profile = 0
    /\ A.nodes[1].current = FALSE
    /\ SentPatch(upstream).nodes = ("D1" :> FALSE)
    /\ SentPatch(upstream).blocks = EmptyMap

\* the aerodrome's tick() runs on the tracked aerodrome
Timers == pc \in {"idle", "recv"} /\ pc' = "flush" /\ Tracked

\* the entities whose timer the tick's last message cancelled: armed before
\* it, and contradicted by it or cleared with a known profile
Cancelled ==
    IF ev.msg # None /\ ev.msg[1].type = "Patch"
    THEN {e \in ev.armed : e \in ev.contradicted \/ NamesKnownProfile(ev.msg[1].patch)}
    ELSE {}

\* C14 (tick ordering): a Client tick applies the inbound messages one
\* after the other, then runs the aerodrome's timers, then takes exactly
\* one (patch, scenery) pair; a timer cancelled by a server patch of the
\* tick is gone when the timers run and does not fire in it; and the entry
\* written by the last command before the tick is in the tick's flush.
C14_TickOrdering ==
    [][/\ pc = "recv" => pc' \in {"recv", "flush"}
       /\ pc' = "recv" => ev'.n = (IF pc = "idle" THEN 1 ELSE ev.n + 1)
       /\ pc = "flush" => pc' \in {"idle", "panicked"}
       /\ pc' = "idle" /\ pc # "idle" =>
            /\ pc = "flush"
            /\ Len(upstream') <= 2
            /\ \A j, k \in DOMAIN upstream' : upstream'[j].type = upstream'[k].type => j = k
       /\ Timers =>
            \A e \in Cancelled :
                IF e[1] = "node"
                THEN /\ ~HasTimer(A.node_timers, e[2])
                     /\ A2.nodes[e[2]] = A.nodes[e[2]]
                     /\ e[2] \notin Range(A2.pending_nodes) \ Range(A.pending_nodes)
                ELSE ~HasTimer(A.block_timers, e[2])
       /\ Flush /\ pc' = "idle" /\ ops # <<>> =>
            /\ LastOp[1] = "set_node" /\ LastOp[4] = "Direct" =>
                    /\ Conf.nodes[LastOp[2]].id \in DOMAIN SentPatch(upstream').nodes
                    /\ SentPatch(upstream').nodes[Conf.nodes[LastOp[2]].id] = LastOp[3]
            /\ LastOp[1] = "set_block" /\ LastOp[2] \in DOMAIN Conf.blocks =>
                    /\ Conf.blocks[LastOp[2]].id \in DOMAIN SentPatch(upstream').blocks
                    /\ SentPatch(upstream').blocks[Conf.blocks[LastOp[2]].id]
                            = bs_conf_to_ipc(LastOp[3])]_vars

\* D1 was lowered with a reset timer, the deadline has passed, and the tick
\* received a patch that contradicts D1 before its timers ran: D1 was not
\* raised
C14_Witness ==
    /\ Flush
    /\ <<"node", 0>> \in Cancelled \cap ev.due
    /\ A.nodes[0].pending = Some(FALSE)
    /\ A.node_timers = <<>>

\* the label of a command that names an index outside the configuration, a
\* node that is not Direct (set_node) or an end that is not Router (set_route)
InvalidCall(a, l) ==
    CASE l[1] = "set_node" -> l[2] \notin DOMAIN Conf.nodes \/ l[4] # "Direct"
      [] l[1] = "set_block" -> l[2] \notin DOMAIN Conf.blocks
      [] l[1] = "set_route" -> ~IsRouter(a, l[2]) \/ ~IsRouter(a, l[3])
      [] l[1] = "set_profile" -> l[2] \notin DOMAIN Conf.profiles
      [] l[1] = "apply_preset" -> l[2] \notin DOMAIN Conf.profiles[a.profile].presets
      [] OTHER -> FALSE

\* the step is an invalid command: one that returned and was recorded, or
\* the set_route call that did not return (an index outside the range)
InvalidCommand ==
    /\ pc = "idle" /\ Tracked
    /\ \/ Len(ops') = Len(ops) + 1 /\ InvalidCall(A, ops'[Len(ops')])
       \/ pc' = "panicked"

\* C15 (invalid operator commands are silent no-ops): set_node, set_block,
\* set_route, set_profile and apply_preset with an index outside the
\* configuration, set_node on a node that is not Direct and set_route with
\* an end that is not Router leave the aerodrome (cells, profile, pending
\* patch, pending_nodes, timers) as it was and raise no error.
C15_InvalidNoOp ==
    [][InvalidCommand => pc' = "idle" /\ aerodromes' = aerodromes]_vars

\* the invalid commands that do return leave the aerodrome as it was
C15_ReturningNoOp ==
    [][InvalidCommand /\ pc' = "idle" => aerodromes' = aerodromes]_vars

\* the patch has an entry that writes the node, the block
WritesNode(patch, i) == Conf.nodes[i].id \in DOMAIN patch.nodes
WritesBlock(patch, b) ==
    /\ Conf.blocks[b].id \in DOMAIN patch.blocks
    /\ Convertible(patch.blocks[Conf.blocks[b].id])

\* C16 (unknown ids in a server patch are dropped entry by entry): an
\* unknown profile id leaves the profile index and the timers alone; a node
\* or block for which the patch has no entry that names it, or only a Route
\* with an unknown node id, keeps its cell and its timers; entries with
\* unknown ids change nothing; and every other entry of the same patch is
\* applied (current becomes the entry's value).
C16_UnknownIdsDropped ==
    [][RecvPatch =>
        /\ ~NamesKnownProfile(RecvdPatch) => A2.profile = A.profile
        /\ \A i \in DOMAIN Conf.nodes :
                IF WritesNode(RecvdPatch, i)
                THEN A2.nodes[i].current = RecvdPatch.nodes[Conf.nodes[i].id]
                ELSE /\ A2.nodes[i] = A.nodes[i]
                     /\ ~NamesKnownProfile(RecvdPatch) =>
                            TimersOf(A2.node_timers, i) = TimersOf(A.node_timers, i)
        /\ \A b \in DOMAIN Conf.blocks :
                IF WritesBlock(RecvdPatch, b)
                THEN Some(A2.blocks[b].current)
                        = bs_ipc_to_conf(RecvdPatch.blocks[Conf.blocks[b].id])
                ELSE /\ A2.blocks[b] = A.blocks[b]
                     /\ ~NamesKnownProfile(RecvdPatch) =>
                            TimersOf(A2.block_timers, b) = TimersOf(A.block_timers, b)]_vars

\* the patch with profile PX, nodes D1 and ZZ, blocks B1 as a Route to ZZ
\* and BX has been applied: D1's entry was (current true, against a pending
\* false), B1 keeps its pending Relax and its timer, the profile is still P0
C16_Witness ==
    /\ Tracked /\ pc = "recv"
    /\ ev.msg # None /\ ev.msg[1].type = "Patch" /\ ev.msg[1].patch.profile = Some("PX")
    /\ A.profile = 0
    /\ A.nodes[0] = [current |-> TRUE, pending |-> Some(FALSE)]
    /\ A.blocks[0].pending = Some(Relax)
    /\ HasTimer(A.block_timers, 0)

\* the ways set_route ends without committing a chain
PoppedTwice(rs) == rs.status = "error"
Overflowed(rs) == rs.status = "overflow"
Unreachable(rs) == rs.status = "search" /\ rs.nodes = <<>> /\ rs.list = None
RevisitedChain(rs) ==
    /\ rs.status \in {"found", "search"} /\ rs.list # None
    /\ \E k \in 1..(Len(rs.list[1]) - 1) : rs.list[1][k] \in rs.revisited

\* C17 (router failure writes nothing): when set_route ends because the
\* destination was popped a second time, because an element of the chain
\* other than the origin was met again, because the reconstruction
\* overflowed or because the destination was not reached, it has called
\* set_block_state for no block: no block cell, pending-patch entry or
\* timer is written.
C17_FailureWritesNothing ==
    (solver.done /\ (PoppedTwice(solver.rs) \/ Overflowed(solver.rs)
                        \/ Unreachable(solver.rs) \/ RevisitedChain(solver.rs)))
        => solver.calls = <<>>

\* set_route has returned on a chain with a revisited element, a chain of
\* at least one block, without a call of set_block_state
C17_Witness ==
    /\ solver.done
    /\ RevisitedChain(solver.rs)
    /\ Len(solver.rs.list[1]) > 1
    /\ solver.calls = <<>>

C17_WitnessPoppedTwice == solver.done /\ PoppedTwice(solver.rs) /\ solver.calls = <<>>
C17_WitnessUnreachable == solver.done /\ Unreachable(solver.rs) /\ solver.calls = <<>>
C17_WitnessOverflow == solver.done /\ Overflowed(solver.rs) /\ solver.calls = <<>>
C17_WitnessCommitted == solver.done /\ Len(solver.calls) > 1

\* the receive loop applies a message of the type
Recv(type) == pc' = "recv" /\ ev'.msg # None /\ ev'.msg[1].type = type

\* C18 (aerodrome lifecycle): the aerodrome enters the registry only when
\* a Config for its ICAO is received while it has none, and it is then the
\* aerodrome Aerodrome::new builds; it leaves the registry only by
\* set_tracking(icao, false), called by the host or by the receive loop on
\* an Error with disconnect, which does remove it; a Config for an ICAO
\* already in the registry leaves the aerodrome as it is; and a Patch or an
\* Error for an ICAO that is not in the registry changes nothing.
C18_Lifecycle ==
    [][/\ ~Tracked /\ Tracked' => Recv("Config") /\ A2 = new
       /\ ~Tracked /\ Recv("Config") => Tracked'
       /\ Tracked /\ ~Tracked' =>
            \/ pc = "idle" /\ pc' = "idle"
            \/ Recv("Error") /\ ev'.msg[1].disconnect
       /\ Recv("Error") /\ ev'.msg[1].disconnect => ~Tracked'
       /\ Tracked /\ Recv("Config") => aerodromes' = aerodromes
       /\ ~Tracked /\ (Recv("Patch") \/ Recv("Error")) => aerodromes' = aerodromes]_vars

\* a second Config has been received for the tracked aerodrome, whose D1
\* keeps the pending value and the timer of the operator's set_node
C18_Witness ==
    /\ Tracked /\ pc = "recv"
    /\ ev.msg # None /\ ev.msg[1].type = "Config"
    /\ A.nodes[0].pending = Some(FALSE)
    /\ HasTimer(A.node_timers, 0)
    /\ A.pending_patch.nodes = ("D1" :> FALSE)

\* C19 (profile index in range): in every reachable state the active
\* profile index of the aerodrome is less than the number of profiles of
\* the configuration, whatever set_profile calls (with any argument) and
\* server patches (with known or unknown profile ids) came before.
C19_ProfileInRange == Tracked => A.profile \in DOMAIN Conf.profiles

\* set_profile was called with an index outside the range, after a server
\* patch had selected P1, and the tick has received the patch that names
\* the unknown profile PX: the profile is still P1
C19_Witness ==
    /\ Tracked /\ pc = "recv"
    /\ ev.msg # None /\ ev.msg[1].type = "Patch" /\ ev.msg[1].patch.profile = Some("PX")
    /\ ops # <<>> /\ LastOp = <<"set_profile", 4>>
    /\ A.profile = 1

\* the internal form of the value the patch writes to the block
Written(patch, b) == bs_ipc_to_conf(patch.blocks[Conf.blocks[b].id])[1]

\* C20 as stated (pending lifetime): after apply_patch has processed an
\* entry for a node or a block, confirming or contradicting, the entity's
\* pending is empty and its effective value is the server's value.
C20_AsStated ==
    [][RecvPatch =>
        /\ \A i \in DOMAIN Conf.nodes : WritesNode(RecvdPatch, i) =>
                /\ A2.nodes[i].pending = None
                /\ state(A2.nodes[i]) = RecvdPatch.nodes[Conf.nodes[i].id]
        /\ \A b \in DOMAIN Conf.blocks : WritesBlock(RecvdPatch, b) =>
                /\ A2.blocks[b].pending = None
                /\ state(A2.blocks[b]) = Written(RecvdPatch, b)]_vars

\* C20 (amended): a pending value lives until a server patch entry for the
\* entity confirms it.  apply_patch sets current to the entry's value; it
\* empties the pending only when the pending equals that value, and then
\* the effective value is the server's; an entry that contradicts the
\* pending leaves it in place, so the effective value stays the pending
\* one; an entity for which the patch has no entry keeps its pending.
C20_PendingLifetime ==
    [][RecvPatch =>
        /\ \A i \in DOMAIN Conf.nodes :
                IF WritesNode(RecvdPatch, i)
                THEN LET v == RecvdPatch.nodes[Conf.nodes[i].id] IN
                     /\ A2.nodes[i].current = v
                     /\ A2.nodes[i].pending =
                            (IF A.nodes[i].pending = Some(v) THEN None ELSE A.nodes[i].pending)
                     /\ state(A2.nodes[i]) =
                            (IF A.nodes[i].pending = None THEN v ELSE A.nodes[i].pending[1])
                ELSE A2.nodes[i].pending = A.nodes[i].pending
        /\ \A b \in DOMAIN Conf.blocks :
                IF WritesBlock(RecvdPatch, b)
                THEN LET v == Written(RecvdPatch, b) IN
                     /\ A2.blocks[b].current = v
                     /\ A2.blocks[b].pending =
                            (IF A.blocks[b].pending = Some(v) THEN None ELSE A.blocks[b].pending)
                     /\ state(A2.blocks[b]) =
                            (IF A.blocks[b].pending = None THEN v ELSE A.blocks[b].pending[1])
                ELSE A2.blocks[b].pending = A.blocks[b].pending]_vars

\* a server patch has contradicted the pending value of a node: the
\* pending is still there and differs from the server's value in current
C20_Witness ==
    /\ Tracked /\ pc = "recv"
    /\ \E e \in ev.contradicted \ ev.unpredicted :
        /\ e[1] = "node"
        /\ A.nodes[e[2]].pending # None
        /\ A.nodes[e[2]].pending[1] # A.nodes[e[2]].current

\* the first ten bytes of a container of the type kind, as section 6.2 gives them
Header(kind) ==
    IF kind = "Config" THEN <<255, 66, 65, 82, 83, 19, 101, 117, 0, 1>>
    ELSE <<255, 66, 65, 82, 83, 19, 101, 117, 128, 2>>

\* C21 (round-trip encoding): decode(encode(a)) is a for every aerodrome;
\* save writes the 8-byte magic and the 2-byte big-endian version of the
\* type (Config 0x0001, Maps 0x8002) first; load of what save wrote, as the
\* same type, gives the value back; load gives an error for bytes whose
\* magic or version differ from those of the type loaded.
C21_RoundTrip ==
    /\ (file.kind = "Aerodrome" /\ file.result # None) =>
            file.result[1].ok /\ file.result[1].val = file.value
    /\ (file.kind # "Aerodrome" /\ file.bytes # None /\ ~file.damaged) =>
            SubSeq(file.bytes[1], 1, 10) = Header(file.kind)
    /\ (file.kind # "Aerodrome" /\ file.result # None) =>
            /\ SubSeq(file.bytes[1], 1, 10) # Header(file.as[1]) => ~file.result[1].ok
            /\ (~file.damaged /\ file.as[1] = file.kind) =>
                    file.result[1].ok /\ file.result[1].val = file.value

\* a configuration of MaxItems aerodromes, the last with maps and profiles,
\* came back from load
C21_Witness ==
    /\ file.kind = "Config"
    /\ Len(file.value[3]) = MaxItems
    /\ file.value[3][MaxItems] = SampleAerodrome(251)
    /\ ~file.damaged
    /\ file.result # None
    /\ file.result[1].ok
    /\ file.result[1].val = file.value

\* an aerodrome whose reset time takes the five-byte integer form was decoded
C21_WitnessAerodrome ==
    /\ file.kind = "Aerodrome"
    /\ file.value = SampleAerodrome(70000)
    /\ file.result # None
    /\ file.result[1].ok

\* a Maps file was refused as a Config, and a file with a damaged magic
\* was refused
C21_WitnessVersion ==
    /\ file.kind = "Maps"
    /\ ~file.damaged
    /\ file.result # None
    /\ file.as = Some("Config")
    /\ file.result[1] = Err("unsupported config version")

C21_WitnessMagic ==
    /\ file.damaged
    /\ file.result # None
    /\ file.result[1] = Err("invalid config file")

\* the effective value of a cell, from its two fields
Effective(cell) == IF cell.pending = None THEN cell.current ELSE cell.pending[1]

\* C22 (node effective state): node_state of a Router node is true iff at
\* least one of the blocks recorded in node_blocks for the node has an
\* effective state that clears it: Clear, or a Route neither end of which is
\* the node; Relax does not clear.  For a Fixed node it is (state = On), for
\* a Direct node the effective value of its cell.
C22_NodeState ==
    Tracked =>
        \A n \in DOMAIN Conf.nodes :
            LET cond == Conf.profiles[A.profile].nodes[n]
                clears(b) ==
                    \/ Effective(A.blocks[b]) = Clear
                    \/ /\ Effective(A.blocks[b]) \notin {Clear, Relax}
                       /\ n \notin {Effective(A.blocks[b])[2], Effective(A.blocks[b])[3]}
            IN  node_state(A, n) =
                    CASE cond[1] = "Fixed" -> cond[2] = On
                      [] cond[1] = "Direct" -> Effective(A.nodes[n])
                      [] cond[1] = "Router" -> \E b \in Range(Idx.node_blocks[n]) : clears(b)

\* T is a Router between a block routed through it and a clear block, and
\* is lit; R1 borders only the routed block and is dark
C22_Witness ==
    /\ Tracked
    /\ A.profile = 1
    /\ Effective(A.blocks[0]) = Route(2, 3)
    /\ Effective(A.blocks[1]) = Clear
    /\ node_state(A, 3)
    /\ ~node_state(A, 2)

\* T is a Router between a block routed through it and a relaxed block: dark
C22_WitnessRelax ==
    /\ Tracked
    /\ A.profile = 1
    /\ Effective(A.blocks[0]) = Route(2, 3)
    /\ Effective(A.blocks[1]) = Relax
    /\ ~node_state(A, 3)
    /\ ~node_state(A, 4)

\* D1 is lit by a pending value over a dark current one
C22_WitnessDirect ==
    /\ Tracked
    /\ A.nodes[0].pending = Some(TRUE) /\ ~A.nodes[0].current
    /\ node_state(A, 0)

\* the children of a parent in the fan configuration, and the nodes that
\* stand for it in a route: its children if it has any, else itself
Kids(p) == {n \in DOMAIN FanConf.nodes : FanConf.nodes[n].parent = Some(p)}
Side(p) == IF Kids(p) = {} THEN {p} ELSE Kids(p)

\* C23 as stated: for a block in effective state Route(ap, bp) the candidates
\* are the pairs (a, b) with a in children(ap) \cup {ap}, b in
\* children(bp) \cup {bp}, less the block's non_routes; for a block in no
\* Route state there are none.
C23_AsStated ==
    solver.cands # None =>
        LET block == solver.cands[1][1]
            bs == Effective(solver.a.blocks[block])
        IN  solver.cands[1][2] =
                IF IsRoute(bs)
                THEN ((Kids(bs[2]) \cup {bs[2]}) \X (Kids(bs[3]) \cup {bs[3]}))
                        \ FanConf.blocks[block].non_routes
                ELSE {}

\* C23 (route candidates), amended: an end that has children is stood for
\* by its children alone, an end without children by itself; the candidates
\* are the pairs of these less the block's non_routes, and none for a block
\* in no Route state.  The Router edge evaluator uses this set: in a Route
\* state an edge is off when the set is empty, and with a single candidate
\* it is on iff the candidate is one of the edge's routes.
C23_Candidates ==
    /\ solver.cands # None =>
        LET block == solver.cands[1][1]
            bs == Effective(solver.a.blocks[block])
        IN  solver.cands[1][2] =
                IF IsRoute(bs)
                THEN (Side(bs[2]) \X Side(bs[3])) \ FanConf.blocks[block].non_routes
                ELSE {}
    /\ solver.edge # None =>
        LET cond == FanConf.profiles[0].edges[solver.edge[1][1]]
            bs == Effective(solver.a.blocks[cond[2]])
            cands == (Side(bs[2]) \X Side(bs[3])) \ FanConf.blocks[cond[2]].non_routes
        IN  IsRoute(bs) =>
                /\ cands = {} => ~solver.edge[1][2]
                /\ \A r \in cands : cands = {r} => (solver.edge[1][2] <=> r \in cond[3])

\* block X is routed from P to Q by a pending value: Pa-Q is its only
\* candidate, and the edge of that route is on
C23_Witness ==
    /\ solver.a.blocks[0] = [current |-> Clear, pending |-> Some(Route(0, 3))]
    /\ solver.cands = Some(<<0, {<<1, 3>>}>>)
    /\ solver.edge = Some(<<0, TRUE>>)

\* block Y is routed from M to Q: both children of M are candidates
C23_WitnessChildren ==
    /\ Effective(solver.a.blocks[1]) = Route(4, 3)
    /\ solver.cands = Some(<<1, {<<5, 3>>, <<6, 3>>}>>)

\* the node is Fixed-On in the profile of the solver's job
FixedOn(n) == ConfOf(solver.job.conf).profiles[solver.job.prof].nodes[n] = Fixed(On)

\* C24 (Fixed-On nodes block routing): the search expands no Fixed-On node
\* (none is recorded in chain as the node a successor was reached from) and
\* declares arrival at none (none is in the rebuilt list), so the committed
\* chain passes through no Fixed-On node and no set_block_state call of the
\* commit loop writes a Route with a Fixed-On end.
C24_FixedOnBlocks ==
    /\ \A k \in DOMAIN solver.rs.chain : ~FixedOn(solver.rs.chain[k][1])
    /\ solver.rs.list # None =>
            \A k \in DOMAIN solver.rs.list[1] : ~FixedOn(solver.rs.list[1][k][1])
    /\ \A k \in DOMAIN solver.calls :
            ~FixedOn(solver.calls[k][2][2]) /\ ~FixedOn(solver.calls[k][2][3])

\* on the ring whose node 3 is Fixed-On, the route from 0 to 2 was
\* committed through node 1; node 3 was reached from node 0 and never
\* expanded
C24_Witness ==
    /\ solver.job = Job("ring", 1, 0, 2)
    /\ solver.done
    /\ solver.calls # <<>>
    /\ \E d \in BOOLEAN : <<3, d>> \in solver.rs.visited
    /\ \A k \in DOMAIN solver.calls : 3 \notin {solver.calls[k][2][2], solver.calls[k][2][3]}

\* on the main configuration with T Fixed-On, no route from R1 to R2
C24_WitnessBlocked ==
    /\ solver.job = Job("main", 2, 2, 4)
    /\ solver.done
    /\ solver.calls = <<>>
    /\ solver.rs.list = None

\* the entities a patch names, by index
NamedNodes(patch) == UNION {NodesOf(id) : id \in DOMAIN patch.nodes}
NamedBlocks(patch) == UNION {BlocksOf(id) : id \in DOMAIN patch.blocks}

\* C25 (server profile change): a server patch whose profile names a known
\* profile sets the profile index to that profile and clears every node and
\* block timer, and resets nothing: the cell (current and pending) of every
\* node and block the patch does not name is unchanged, and the pending
\* upstream patch is unchanged, so no profile id is put in it.
C25_ServerProfile ==
    [][RecvPatch /\ NamesKnownProfile(RecvdPatch) =>
        /\ Conf.profiles[A2.profile].id = RecvdPatch.profile[1]
        /\ A2.node_timers = <<>>
        /\ A2.block_timers = <<>>
        /\ \A n \in DOMAIN Conf.nodes \ NamedNodes(RecvdPatch) : A2.nodes[n] = A.nodes[n]
        /\ \A b \in DOMAIN Conf.blocks \ NamedBlocks(RecvdPatch) : A2.blocks[b] = A.blocks[b]
        /\ A2.pending_patch = A.pending_patch
        /\ A2.pending_nodes = A.pending_nodes]_vars

\* the server has just moved the aerodrome to P1 while D1 had a pending
\* value and an armed timer: the pending value is still there, the timers
\* are gone and the pending upstream patch names no profile
C25_Witness ==
    /\ pc = "recv"
    /\ Tracked
    /\ ev.msg # None /\ ev.msg[1].type = "Patch" /\ ev.msg[1].patch.profile = Some("P1")
    /\ A.profile = 1
    /\ <<"node", 0>> \in ev.armed
    /\ A.nodes[0].pending # None
    /\ A.node_timers = <<>>
    /\ A.pending_patch.profile = None

\* the elements bound to a node that the flush has to emit: all of them in
\* a full refresh, those of the touched nodes otherwise
NodeElements(a) ==
    {e \in DOMAIN Conf.elements :
        /\ Conf.elements[e].condition[1] = "Node"
        /\ a.pending_patch.profile = None => Conf.elements[e].condition[2] \in Range(a.pending_nodes)}

\* C26 as stated: the value the flush emits for an element bound to a node n
\* is node_state(n) under the active profile.
C26_AsStated ==
    [][Flush /\ pc' = "idle" =>
        \A e \in NodeElements(A) :
            /\ Conf.elements[e].id \in DOMAIN SentScenery(upstream')
            /\ SentScenery(upstream')[Conf.elements[e].id]
                    = node_state(A, Conf.elements[e].condition[2])]_vars

\* C26 (node-bound elements), amended: the value the flush emits for an
\* element bound to a node n, in the touched-node diff and in a full
\* refresh, is the effective value of n's cell (pending if set, else
\* current); it is node_state(n) when n is Direct in the active profile.
C26_NodeElements ==
    [][Flush /\ pc' = "idle" =>
        \A e \in NodeElements(A) :
            LET n == Conf.elements[e].condition[2] IN
            /\ Conf.elements[e].id \in DOMAIN SentScenery(upstream')
            /\ SentScenery(upstream')[Conf.elements[e].id] = Effective(A.nodes[n])
            /\ NodeCond(A, n)[1] = "Direct" =>
                    SentScenery(upstream')[Conf.elements[e].id] = node_state(A, n)]_vars

\* a full refresh of profile P1 has shown the element of D2, Fixed-On there,
\* with the value the server wrote to its cell
C26_Witness ==
    /\ pc = "idle"
    /\ Tracked
    /\ A.profile = 1
    /\ SentPatch(upstream).profile = Some("P1")
    /\ "E5" \in DOMAIN SentScenery(upstream)
    /\ ~SentScenery(upstream)["E5"]
    /\ ~A.nodes[1].current /\ A.nodes[1].pending = None

\* a flush without profile change has shown the element of the touched D1
\* with its pending value
C26_WitnessDiff ==
    /\ pc = "idle"
    /\ Tracked
    /\ SentPatch(upstream).profile = None
    /\ "E1" \in DOMAIN SentScenery(upstream)
    /\ A.nodes[0].pending = Some(SentScenery(upstream)["E1"])
    /\ A.nodes[0].current # SentScenery(upstream)["E1"]

\* C27 (a flush clears its buffers): take_pending leaves the pending patch
\* and pending_nodes empty and previous_edges equal to the edge vector it
\* computed, so take_pending on the state it leaves returns an empty patch
\* and an empty scenery, for which nothing is sent; and a flush that no
\* command, server message or timer firing has preceded since the flush
\* before sends nothing upstream and changes nothing.
C27_FlushClears ==
    /\ [][Flush /\ pc' = "idle" =>
            /\ A2.pending_patch = EmptyPatch
            /\ A2.pending_nodes = <<>>
            /\ A2.previous_edges = calculate_edges(A)
            /\ patch_is_empty(take_pending(A2).patch)
            /\ take_pending(A2).scenery = EmptyMap
            /\ flush_sends(take_pending(A2).patch, take_pending(A2).scenery) = <<>>]_vars
    /\ [][Flush /\ ops = <<>> /\ ev.msg = None =>
            pc' = "idle" /\ upstream' = <<>> /\ A2 = A]_vars

\* the flush before sent a patch and a scenery, and the tick that follows
\* it has received no message and fired no timer: its flush is next
C27_Witness ==
    /\ pc = "flush"
    /\ Tracked
    /\ ops = <<>>
    /\ ev.msg = None
    /\ SentPatch(upstream) # EmptyPatch
    /\ DOMAIN SentScenery(upstream) # {}
    /\ A.pending_patch = EmptyPatch
    /\ A.pending_nodes = <<>>

\* C28 (one timer per entity): in every reachable state at most one reset
\* timer is armed for each node and at most one for each block, whatever
\* set_node, set_block, set_route, preset, profile, patch and tick
\* operations came before.
C28_OneTimerEach ==
    Tracked =>
        /\ \A n \in DOMAIN Conf.nodes : Len(TimersOf(A.node_timers, n)) <= 1
        /\ \A b \in DOMAIN Conf.blocks : Len(TimersOf(A.block_timers, b)) <= 1

\* D1 was switched off twice in a row: one timer is armed for D1, with the
\* deadline of the second call
C28_Witness ==
    /\ Tracked
    /\ Len(ops) = 2
    /\ ops[1] = <<"set_node", 0, FALSE, "Direct">>
    /\ ops[2] = ops[1]
    /\ TimersOf(A.node_timers, 0) = << <<0, now + 1>> >>
    /\ now > 0

\* a node timer and a block timer are armed together
C28_WitnessBoth ==
    /\ Tracked
    /\ HasTimer(A.node_timers, 0)
    /\ HasTimer(A.block_timers, 0)

\* C29 (timers belong to entities away from rest): whenever a node timer is
\* armed for n the effective value of n's cell is false, and whenever a
\* block timer is armed for b the effective state of b is not Clear.
C29_TimerMeansAway ==
    Tracked =>
        /\ \A k \in DOMAIN A.node_timers : ~Effective(A.nodes[A.node_timers[k][1]])
        /\ \A k \in DOMAIN A.block_timers : Effective(A.blocks[A.block_timers[k][1]]) # Clear

\* the server has confirmed D1 off: the prediction is settled, the cell
\* holds the value as current, and the timer is still armed
C29_Witness ==
    /\ Tracked
    /\ HasTimer(A.node_timers, 0)
    /\ A.nodes[0] = [current |-> FALSE, pending |-> None]

\* a block timer is armed for B1 in a Route state
C29_WitnessBlock ==
    /\ Tracked
    /\ HasTimer(A.block_timers, 0)
    /\ IsRoute(Effective(A.blocks[0]))

\* C30 (every local prediction reaches the server): after a flush of the
\* tracked aerodrome, every pending value a node or block holds was an
\* entry of an upstream patch sent by that flush or an earlier one, for any
\* order of set_node, set_block, set_route and apply_preset between flushes.
C30_PredictionsSent ==
    (pc = "idle" /\ ops = <<>> /\ Tracked) =>
        /\ \A n \in DOMAIN Conf.nodes :
            A.nodes[n].pending # None =>
                <<"node", Conf.nodes[n].id, A.nodes[n].pending[1]>> \in sent
        /\ \A b \in DOMAIN Conf.blocks :
            A.blocks[b].pending # None =>
                <<"block", Conf.blocks[b].id, bs_conf_to_ipc(A.blocks[b].pending[1])>> \in sent

\* C31 (scenery follows every node change): when the effective value of a
\* node's cell at a flush differs from its value at the previous flush of
\* the aerodrome, whether an operator command, a timer, a preset or a server
\* patch changed it, the scenery of the flush holds every element bound to
\* the node, with the new value.
C31_SceneryFollows ==
    [][Flush /\ pc' = "idle" /\ shown # None =>
        \A n \in DOMAIN Conf.nodes :
            Effective(A.nodes[n]) # shown[1][n] =>
                \A e \in BoundTo(n) :
                    /\ Conf.elements[e].id \in DOMAIN SentScenery(upstream')
                    /\ SentScenery(upstream')[Conf.elements[e].id]
                            = Effective(A.nodes[n])]_vars

\* C32 (pending_nodes holds valid indices): in every reachable state each
\* index of pending_nodes is an index of a node of the configuration, so
\* that take_pending indexes node_dependencies and the node cells in range;
\* this covers the state after apply_preset of a preset that names a node
\* index outside the configuration.
C32_PendingNodesInRange ==
    Tracked =>
        \A k \in DOMAIN A.pending_nodes : A.pending_nodes[k] \in DOMAIN Conf.nodes

\* the set_block_state calls of the finished set_route, and the parent nodes
\* of a block of the job's configuration
Calls == solver.calls
ParentsOf(block) == Range(ConfOf(solver.job.conf).blocks[block].nodes)

\* C33 (a committed route is a connected path): every block state written
\* by a set_route(o, d) that commits is Route(n1, n2) with n1 and n2 both
\* parent nodes of the written block; in path order the first route starts
\* at o and the last ends at d, each route ends where the next one starts,
\* and consecutive routes are written to different blocks.  The commit loop
\* writes from d back to o, so the first call is the last route of the path.
C33_ConnectedPath ==
    (solver.done /\ Calls # <<>>) =>
        /\ \A k \in DOMAIN Calls :
            /\ Calls[k][2][1] = "Route"
            /\ Calls[k][1] \in DOMAIN ConfOf(solver.job.conf).blocks
            /\ {Calls[k][2][2], Calls[k][2][3]} \subseteq ParentsOf(Calls[k][1])
        /\ Calls[Len(Calls)][2][2] = solver.job.orgn
        /\ Calls[1][2][3] = solver.job.dest
        /\ \A k \in 1..(Len(Calls) - 1) :
            /\ Calls[k + 1][2][3] = Calls[k][2][2]
            /\ Calls[k + 1][1] # Calls[k][1]

\* on the ring whose node 3 is Fixed-On the route from 0 to 2 was committed
\* over two blocks: block b from 1 to 2 first, then block a from 0 to 1
C33_Witness ==
    /\ solver.job = Job("ring", 1, 0, 2)
    /\ solver.done
    /\ Calls = << <<1, Route(1, 2)>>, <<0, Route(0, 1)>> >>

\* on the ring with the transparent node 1, a route was committed through it
C33_WitnessTransparent ==
    /\ solver.job.conf = "ring"
    /\ solver.job.prof = 0
    /\ solver.done
    /\ \E k \in DOMAIN Calls : Calls[k][2][2] = 1

\* on the line, a route over a thousand blocks was committed
C33_WitnessLong ==
    /\ solver.job.conf = "line"
    /\ solver.done
    /\ Len(Calls) > 900
====
